---- MODULE Spec2Model ----
(***************************************************************************)
(* Multi-vendor marketplace backend: carts, checkout, orders, inventory.   *)
(* Money is counted in integer cents.  Every request handler is one        *)
(* action; the handlers of CheckoutView are also given step by step for    *)
(* the interleaving of two requests.                                       *)
(***************************************************************************)
EXTENDS Integers, Sequences, FiniteSets, TLC

\* ------------------------------------------------------------------ bounds
MaxStock == 2
MaxQty == 2
MaxLines == 2
MaxOrders == 2
MaxManagedOrders == 1
MaxAddresses == 3
MaxRequests == 2
MaxViews == 1
MaxImages == 3

\* ------------------------------------------------------- program constants
ShippingFee == 500
FreeShippingThreshold == 5000
TaxRatePercent == 10

\* ---------------------------------------------------------------- universe
Users == {"u1", "u2"}
Products == {"p1", "p2"}
Vendors == {"v1", "v2"}
Guest == "guest"
Shopper == "u1"
Absent == 0 - 1

VendorOf(p) == IF p = "p1" THEN "v1" ELSE "v2"
ProductOrder == <<"p1", "p2">>
InitStock == [p \in Products |-> IF p = "p1" THEN 1 ELSE MaxStock]
DefaultPrice == [p \in Products |-> IF p = "p1" THEN 1500 ELSE 2500]
PriceSet == {1500, 2495, 2500}

\* Names a vendor may give a product, a stock keeping unit or the store; the
\* value of an order item's product once the product is deleted.
Names == {"name1", "name2"}
\* Sku and store name are unique columns: every product and vendor starts
\* with its own.
Skus == {"sku1", "sku2", "sku3"}

\* The accounts: the owners of the two stores, a customer, an administrator
\* and an address nobody has registered yet.
People == {"o1", "o2", "a1", "admin1", "a3"}
Roles == {"customer", "vendor", "admin"}
Unregistered == "unregistered"
InitRole ==
    [a \in People |-> IF a \in {"o1", "o2"} THEN "vendor"
                      ELSE IF a = "admin1" THEN "admin"
                      ELSE IF a = "a3" THEN Unregistered ELSE "customer"]

\* The Vendor rows: those of the two stores and the ids later rows may take;
\* a row that does not exist has no owner, status or store name.
VendorIds == Vendors \cup {"v3", "v4"}
NoVendor == "none"
InitOwner ==
    [v \in VendorIds |-> IF v = "v1" THEN "o1" ELSE IF v = "v2" THEN "o2" ELSE NoVendor]
InitStatus == [v \in VendorIds |-> IF v \in Vendors THEN "approved" ELSE NoVendor]

\* A cancel request that has not started.
NoCancel == [stage |-> "idle", user |-> "nobody", order |-> 0, todo |-> <<>>, stock |-> 0]

\* The store names a request may carry, and str.lower on them.
RequestedNames == {"STORE1", "store3", "STORE3", "store4"}
Lower(n) == IF n = "STORE1" THEN "store1" ELSE IF n = "STORE3" THEN "store3" ELSE n

StoreNames == {"store1", "store2", "store3"}
InitSku == [p \in Products |-> IF p = "p1" THEN "sku1" ELSE "sku2"]
InitStoreName ==
    [v \in VendorIds |-> IF v = "v1" THEN "store1" ELSE IF v = "v2" THEN "store2" ELSE NoVendor]
NoProduct == "none"

OrderStatuses == {"pending", "processing", "shipped", "delivered", "cancelled"}
ApprovalActions == {"approve", "reject", "suspend"}
Quantities == 1..MaxQty
Line == [product : Products, quantity : Quantities]
ItemLists == UNION {[1..n -> Line] : n \in 1..MaxLines}

\* The address book: ids, types, an empty slot, and the requests that save.
AddressIds == 1..MaxAddresses
AddressTypes == {"shipping", "billing"}
NoAddress == [user |-> "nobody", address_type |-> "shipping", is_default |-> FALSE]
Requests == 1..MaxRequests
NoSave == [stage |-> "idle", id |-> 0, row |-> NoAddress]

\* The shipping address of a checkout: given inline, given inline and saved
\* (save_address), or a saved address named by id (address_id).
Inline == [kind |-> "inline"]
InlineSaved == [kind |-> "inline", save_address |-> TRUE]
Saved(id) == [kind |-> "saved", address_id |-> id]
AddressChoices == {Inline, InlineSaved} \cup {Saved(id) : id \in AddressIds}

\* A product id that names no product, and the guest carts that may hold it.
UnknownProduct == "p0"
GuestLine == [product : Products \cup {UnknownProduct}, quantity : Quantities]
GuestLists == UNION {[1..n -> GuestLine] : n \in 1..MaxLines}

VARIABLES stock, sales_count, price, is_active, vstatus, cart, orders, resp, pc, local,
          addresses, saving, name, sku, store_name, deleted, view_count,
          role, vowner, images, cancelling, total_sales

vars == <<stock, sales_count, price, is_active, vstatus, cart, orders, resp, pc, local,
          addresses, saving, name, sku, store_name, deleted, view_count,
          role, vowner, images, cancelling, total_sales>>
people == <<role, vowner>>
side == <<cancelling, total_sales>>
others == <<people, images, side>>
labels == <<name, sku, store_name, deleted, view_count>>
catalog == <<stock, sales_count, price, is_active, vstatus, labels>>
procs == <<pc, local>>
accounts == <<addresses, saving>>

\* ----------------------------------------------------------------- helpers
Min(a, b) == IF a < b THEN a ELSE b

RECURSIVE SumSeq(_)
SumSeq(s) == IF s = <<>> THEN 0 ELSE Head(s) + SumSeq(Tail(s))

is_approved(v) == vstatus[v] = "approved"

\* CartItem.save: the quantity is clamped into [1, product.stock].
CartItemSave(quantity, stk) ==
    LET q1 == IF quantity < 1 THEN 1 ELSE quantity
    IN  IF q1 > stk THEN stk ELSE q1

HasLine(u, p) == cart[u][p] # Absent

\* A response: the request it answers, the HTTP status and the kind of error.
Reply(req, code, err) == req @@ [code |-> code, err |-> err]

\* ------------------------------------------------------------------- Init
NoLocal == [order |-> 0, todo |-> <<>>, stock |-> 0, sales_count |-> 0]

Init ==
    /\ stock = InitStock
    /\ sales_count = [p \in Products |-> 0]
    /\ price = DefaultPrice
    /\ is_active = [p \in Products |-> TRUE]
    /\ vstatus = InitStatus
    /\ cart = [u \in Users |-> [p \in Products |-> Absent]]
    /\ orders = <<>>
    /\ resp = [op |-> "none", code |-> 0]
    /\ pc = [u \in Users |-> "idle"]
    /\ local = [u \in Users |-> NoLocal]
    /\ addresses = [id \in AddressIds |-> NoAddress]
    /\ saving = [r \in Requests |-> NoSave]
    /\ name = [p \in Products |-> "name1"]
    /\ sku = InitSku
    /\ store_name = InitStoreName
    /\ deleted = {}
    /\ view_count = [p \in Products |-> 0]
    /\ role = InitRole
    /\ vowner = InitOwner
    /\ images = [p \in Products |-> <<>>]
    /\ cancelling = [r \in Requests |-> NoCancel]
    /\ total_sales = [v \in VendorIds |-> 0]

\* ------------------------------------------------------------ cart actions
\* AddToCartSerializer: the product is active, its vendor approved, and the
\* requested quantity alone does not exceed the stock.
AddToCartInvalid(p, q) ==
    IF p \in deleted THEN "not_found"
    ELSE IF ~is_active[p] THEN "unavailable"
    ELSE IF ~is_approved(VendorOf(p)) THEN "vendor"
    ELSE IF stock[p] < q THEN "stock"
    ELSE "ok"

\* A check of the requested quantity alone, forgetting the line's quantity.
CombinedExceedsRequestedOnly(existing, q, stk) == q > stk

\* AddToCartView.post's check of the combined quantity of an existing line.
CombinedExceeds(existing, q, stk) == existing + q > stk

AddToCart(u, p, q) ==
    LET bad == AddToCartInvalid(p, q)
        req == [op |-> "add", user |-> u, product |-> p, quantity |-> q]
    IN  /\ UNCHANGED <<catalog, orders, procs, others, accounts>>
        /\ IF bad # "ok"
           THEN /\ resp' = Reply(req, 400, bad)
                /\ UNCHANGED cart
           ELSE IF HasLine(u, p)
           THEN IF CombinedExceeds(cart[u][p], q, stock[p])
                THEN /\ resp' = Reply(req, 400, "stock")
                     /\ UNCHANGED cart
                ELSE /\ cart' = [cart EXCEPT ![u][p] = CartItemSave(cart[u][p] + q, stock[p])]
                     /\ resp' = Reply(req, 200, "none")
           ELSE /\ cart' = [cart EXCEPT ![u][p] = CartItemSave(q, stock[p])]
                /\ resp' = Reply(req, 200, "none")

\* ------------------------------------- AddToCartView.post, statement by statement
\* Line 52: AddToCartSerializer reads the product and validates the request.
A_Validate(u, p, q) ==
    LET bad == AddToCartInvalid(p, q)
        req == [op |-> "add", user |-> u, product |-> p, quantity |-> q]
    IN  /\ pc[u] = "idle"
        /\ UNCHANGED <<accounts, others, catalog, cart, orders>>
        /\ IF bad # "ok"
           THEN /\ resp' = Reply(req, 400, bad)
                /\ UNCHANGED <<pc, local>>
           ELSE /\ UNCHANGED resp
                /\ pc' = [pc EXCEPT ![u] = "add_validated"]
                /\ local' = [local EXCEPT ![u].todo = <<[product |-> p, quantity |-> q]>>]

\* Lines 57-80: the view reads the product again and saves the line; CartItem.save
\* clamps against the stock of the product object just read.
A_Save(u) ==
    LET p == local[u].todo[1].product
        q == local[u].todo[1].quantity
        req == [op |-> "add", user |-> u, product |-> p, quantity |-> q]
    IN  /\ pc[u] = "add_validated"
        /\ UNCHANGED <<accounts, others, catalog, orders>>
        /\ pc' = [pc EXCEPT ![u] = "idle"]
        /\ local' = [local EXCEPT ![u] = NoLocal]
        /\ IF HasLine(u, p)
           THEN IF CombinedExceeds(cart[u][p], q, stock[p])
                THEN /\ resp' = Reply(req, 400, "stock")
                     /\ UNCHANGED cart
                ELSE /\ cart' = [cart EXCEPT ![u][p] = CartItemSave(cart[u][p] + q, stock[p])]
                     /\ resp' = Reply(req, 200, "none")
           ELSE /\ cart' = [cart EXCEPT ![u][p] = CartItemSave(q, stock[p])]
                /\ resp' = Reply(req, 200, "none")

\* UpdateCartItemView.patch; the item id names the line (owner, p).
UpdateCartItem(u, owner, p, q) ==
    LET req == [op |-> "update", user |-> u, owner |-> owner, product |-> p, quantity |-> q]
    IN  /\ UNCHANGED <<catalog, orders, procs, others, accounts>>
        /\ IF owner # u \/ ~HasLine(owner, p)
           THEN /\ resp' = Reply(req, 404, "not_found")
                /\ UNCHANGED cart
           ELSE IF q > stock[p]
           THEN /\ resp' = Reply(req, 400, "stock")
                /\ UNCHANGED cart
           ELSE /\ cart' = [cart EXCEPT ![u][p] = CartItemSave(q, stock[p])]
                /\ resp' = Reply(req, 200, "none")

\* RemoveFromCartView.delete
RemoveFromCart(u, owner, p) ==
    LET req == [op |-> "remove", user |-> u, owner |-> owner, product |-> p]
    IN  /\ UNCHANGED <<catalog, orders, procs, others, accounts>>
        /\ IF owner # u \/ ~HasLine(owner, p)
           THEN /\ resp' = Reply(req, 404, "not_found")
                /\ UNCHANGED cart
           ELSE /\ cart' = [cart EXCEPT ![u][p] = Absent]
                /\ resp' = Reply(req, 200, "none")

\* A merge that overwrites an existing line instead of adding to it.
MergeLineOverwrite(c, line) ==
    LET p == line.product
        quantity == Min(line.quantity, stock[p])
    IN  IF ~is_active[p] \/ ~is_approved(VendorOf(p))
        THEN [cart |-> c, merged |-> 0, errors |-> <<p>>]
        ELSE IF quantity <= 0
        THEN [cart |-> c, merged |-> 0, errors |-> <<p>>]
        ELSE [cart |-> [c EXCEPT ![p] = CartItemSave(quantity, stock[p])],
              merged |-> 1, errors |-> <<>>]

\* A merge that skips a line without recording a warning.
MergeLineSilentSkip(c, line) ==
    LET p == line.product
        quantity == Min(line.quantity, stock[p])
    IN  IF p \notin Products \/ ~is_active[p] \/ ~is_approved(VendorOf(p)) \/ quantity <= 0
        THEN [cart |-> c, merged |-> 0, errors |-> <<>>]
        ELSE IF c[p] # Absent
        THEN [cart |-> [c EXCEPT ![p] = CartItemSave(Min(c[p] + quantity, stock[p]), stock[p])],
              merged |-> 1, errors |-> <<>>]
        ELSE [cart |-> [c EXCEPT ![p] = CartItemSave(quantity, stock[p])],
              merged |-> 1, errors |-> <<>>]

\* One pass of the loop of MergeCartView.post over a guest line: c is the
\* caller's cart, the result the cart, whether the line merged, and the
\* warning (the product's id) if it was skipped.
MergeLine(c, line) ==
    LET p == line.product
        quantity == Min(line.quantity, stock[p])
    IN  IF p \notin Products \/ p \in deleted
        THEN [cart |-> c, merged |-> 0, errors |-> <<p>>]
        ELSE IF ~is_active[p] \/ ~is_approved(VendorOf(p))
        THEN [cart |-> c, merged |-> 0, errors |-> <<p>>]
        ELSE IF quantity <= 0
        THEN [cart |-> c, merged |-> 0, errors |-> <<p>>]
        ELSE IF c[p] # Absent
        THEN [cart |-> [c EXCEPT ![p] = CartItemSave(Min(c[p] + quantity, stock[p]), stock[p])],
              merged |-> 1, errors |-> <<>>]
        ELSE [cart |-> [c EXCEPT ![p] = CartItemSave(quantity, stock[p])],
              merged |-> 1, errors |-> <<>>]

RECURSIVE MergeItems(_, _)
MergeItems(c, items) ==
    IF items = <<>> THEN [cart |-> c, merged |-> 0, errors |-> <<>>]
    ELSE LET one == MergeLine(c, Head(items))
             rest == MergeItems(one.cart, Tail(items))
         IN  [cart |-> rest.cart, merged |-> one.merged + rest.merged,
              errors |-> one.errors \o rest.errors]

\* MergeCartView.post
MergeCart(u, items) ==
    LET out == MergeItems(cart[u], items)
    IN  /\ UNCHANGED <<catalog, orders, procs, others, accounts>>
        /\ cart' = [cart EXCEPT ![u] = out.cart]
        /\ resp' = [op |-> "merge", user |-> u, items |-> items, code |-> 200,
                    merged |-> out.merged, errors |-> out.errors]

\* --------------------------------------------------------- catalog actions
\* The fields of a product a vendor may rewrite, and the request that
\* rewrites only the stock and the active flag.
ProductEdits ==
    [name : Names, sku : Skus, price : PriceSet, stock : 0..MaxStock, is_active : BOOLEAN]
StockEdit(p, newStock, newActive) ==
    [name |-> name[p], sku |-> sku[p], price |-> price[p],
     stock |-> newStock, is_active |-> newActive]

\* VendorProductDetailView (ProductUpdateSerializer): the owning vendor, if
\* approved, rewrites the product's fields; the sku's uniqueness validator
\* refuses one another product holds.
VendorProductUpdate(p, edit) ==
    /\ UNCHANGED <<sales_count, vstatus, store_name, deleted, view_count, cart, orders,
                   procs, others, accounts>>
    /\ IF ~is_approved(VendorOf(p))
       THEN /\ UNCHANGED <<stock, is_active, price, name, sku>>
            /\ resp' = [op |-> "product_update", product |-> p, code |-> 403]
       ELSE IF p \in deleted
       THEN /\ UNCHANGED <<stock, is_active, price, name, sku>>
            /\ resp' = [op |-> "product_update", product |-> p, code |-> 404]
       ELSE IF \E q \in Products \ (deleted \cup {p}) : sku[q] = edit.sku
       THEN /\ UNCHANGED <<stock, is_active, price, name, sku>>
            /\ resp' = [op |-> "product_update", product |-> p, code |-> 400]
       ELSE /\ stock' = [stock EXCEPT ![p] = edit.stock]
            /\ is_active' = [is_active EXCEPT ![p] = edit.is_active]
            /\ price' = [price EXCEPT ![p] = edit.price]
            /\ name' = [name EXCEPT ![p] = edit.name]
            /\ sku' = [sku EXCEPT ![p] = edit.sku]
            /\ resp' = [op |-> "product_update", product |-> p, code |-> 200]

\* A deletion that takes the order items with it (on_delete=CASCADE).
ItemsCascade(items, p) == SelectSeq(items, LAMBDA it : it.product # p)

\* What the deletion of product p leaves of the items: the row stays, its
\* product reference is set to null (on_delete=SET_NULL).
ItemsSetNull(items, p) ==
    [i \in DOMAIN items |->
        IF items[i].product = p THEN [items[i] EXCEPT !.product = NoProduct] ELSE items[i]]

\* VendorProductDetailView.destroy: the product row is deleted; its cart
\* items and images go with it (on_delete=CASCADE), its order items stay.
VendorProductDelete(p) ==
    /\ UNCHANGED <<stock, sales_count, price, is_active, vstatus, name, sku, store_name,
                   view_count, procs, people, side, accounts>>
    /\ IF ~is_approved(VendorOf(p))
       THEN /\ UNCHANGED <<deleted, cart, orders, images>>
            /\ resp' = [op |-> "product_delete", product |-> p, code |-> 403]
       ELSE IF p \in deleted
       THEN /\ UNCHANGED <<deleted, cart, orders, images>>
            /\ resp' = [op |-> "product_delete", product |-> p, code |-> 404]
       ELSE /\ deleted' = deleted \cup {p}
            /\ images' = [images EXCEPT ![p] = <<>>]
            /\ cart' = [u \in Users |-> [cart[u] EXCEPT ![p] = Absent]]
            /\ orders' = [n \in DOMAIN orders |->
                            [orders[n] EXCEPT !.items = ItemsSetNull(@, p)]]
            /\ resp' = [op |-> "product_delete", product |-> p, code |-> 204]

\* filter(store_name__iexact=value).exclude(pk=instance.pk).exists()
StoreNameTaken(n, self) ==
    \E w \in VendorIds \ {self} : vowner[w] # NoVendor /\ Lower(store_name[w]) = Lower(n)

\* VendorProfileView (VendorUpdateSerializer): the vendor renames the store;
\* validate_store_name refuses a name another vendor holds.
VendorProfileUpdate(v, newName) ==
    /\ UNCHANGED <<stock, sales_count, price, is_active, vstatus, name, sku, deleted,
                   view_count, cart, orders, procs, others, accounts>>
    /\ IF vowner[v] = NoVendor \/ role[vowner[v]] # "vendor"
       THEN /\ UNCHANGED store_name
            /\ resp' = [op |-> "vendor_update", vendor |-> v, code |-> 403]
       ELSE IF StoreNameTaken(newName, v)
       THEN /\ UNCHANGED store_name
            /\ resp' = [op |-> "vendor_update", vendor |-> v, code |-> 400]
       ELSE /\ store_name' = [store_name EXCEPT ![v] = newName]
            /\ resp' = [op |-> "vendor_update", vendor |-> v, code |-> 200]

\* VendorApprovalView.post
VendorApproval(v, action) ==
    /\ UNCHANGED <<stock, sales_count, price, is_active, labels, cart, orders, procs, others, accounts>>
    /\ IF vowner[v] = NoVendor
       THEN /\ UNCHANGED vstatus
            /\ resp' = [op |-> "vendor_approval", vendor |-> v, code |-> 404]
       ELSE /\ vstatus' = [vstatus EXCEPT ![v] =
                   IF action = "approve" THEN "approved"
                   ELSE IF action = "reject" THEN "rejected" ELSE "suspended"]
            /\ resp' = [op |-> "vendor_approval", vendor |-> v, code |-> 200]

\* ---------------------------------------------------------- product images
\* An image row of a product.
Image(primary) == [is_primary |-> primary]
Primaries(rows) == {i \in DOMAIN rows : rows[i].is_primary}

\* A save that leaves the other primary images as they are.
ClearPrimaryNever(rows, row) == rows

\* ProductImage.save: a primary image first makes every other image of the
\* product non-primary.
ClearPrimary(rows, row) ==
    IF row.is_primary
    THEN [i \in DOMAIN rows |-> [rows[i] EXCEPT !.is_primary = FALSE]]
    ELSE rows

ImageSave(rows, row) == Append(ClearPrimary(rows, row), row)

\* ProductCreateSerializer.create: the images are saved in the order given,
\* the first one as primary.
RECURSIVE CreateImages(_, _, _)
CreateImages(rows, i, count) ==
    IF i >= count THEN rows
    ELSE CreateImages(ImageSave(rows, Image(i = 0)), i + 1, count)

\* VendorProductListView (POST) with ProductCreateSerializer: an approved
\* vendor creates the product p with count images.
VendorProductCreate(p, count) ==
    /\ UNCHANGED <<vstatus, store_name, cart, orders, procs, people, side, accounts>>
    /\ p \in deleted
    /\ IF ~is_approved(VendorOf(p))
       THEN /\ UNCHANGED <<stock, sales_count, price, is_active, name, sku, deleted,
                           view_count, images>>
            /\ resp' = [op |-> "product_create", product |-> p, code |-> 403]
       ELSE IF \E q \in Products \ deleted : sku[q] = InitSku[p]
       THEN /\ UNCHANGED <<stock, sales_count, price, is_active, name, sku, deleted,
                           view_count, images>>
            /\ resp' = [op |-> "product_create", product |-> p, code |-> 400]
       ELSE /\ deleted' = deleted \ {p}
            /\ stock' = [stock EXCEPT ![p] = InitStock[p]]
            /\ sales_count' = [sales_count EXCEPT ![p] = 0]
            /\ view_count' = [view_count EXCEPT ![p] = 0]
            /\ price' = [price EXCEPT ![p] = DefaultPrice[p]]
            /\ is_active' = [is_active EXCEPT ![p] = TRUE]
            /\ name' = [name EXCEPT ![p] = "name1"]
            /\ sku' = [sku EXCEPT ![p] = InitSku[p]]
            /\ images' = [images EXCEPT ![p] = CreateImages(<<>>, 0, count)]
            /\ resp' = [op |-> "product_create", product |-> p, code |-> 201]

\* VendorProductImageView.create: vendor v uploads an image of product p.
VendorProductImageUpload(v, p, primary) ==
    /\ UNCHANGED <<catalog, cart, orders, procs, people, side, accounts>>
    /\ IF ~is_approved(v)
       THEN /\ UNCHANGED images
            /\ resp' = [op |-> "image_upload", vendor |-> v, product |-> p, code |-> 403]
       ELSE IF p \in deleted \/ VendorOf(p) # v
       THEN /\ UNCHANGED images
            /\ resp' = [op |-> "image_upload", vendor |-> v, product |-> p, code |-> 404]
       ELSE /\ images' = [images EXCEPT ![p] = ImageSave(@, Image(primary))]
            /\ resp' = [op |-> "image_upload", vendor |-> v, product |-> p, code |-> 201]

\* VendorProductImageDeleteView: vendor v deletes the i-th image of product p.
VendorProductImageDelete(v, p, i) ==
    /\ UNCHANGED <<catalog, cart, orders, procs, people, side, accounts>>
    /\ IF ~is_approved(v)
       THEN /\ UNCHANGED images
            /\ resp' = [op |-> "image_delete", vendor |-> v, product |-> p, code |-> 403]
       ELSE IF i > Len(images[p]) \/ VendorOf(p) # v
       THEN /\ UNCHANGED images
            /\ resp' = [op |-> "image_delete", vendor |-> v, product |-> p, code |-> 404]
       ELSE /\ images' = [images EXCEPT ![p] =
                            [j \in 1..(Len(@) - 1) |-> IF j < i THEN @[j] ELSE @[j + 1]]]
            /\ resp' = [op |-> "image_delete", vendor |-> v, product |-> p, code |-> 204]

\* ------------------------------------------------------ vendor registration
\* RegisterView (UserRegistrationSerializer): a new account; only customer and
\* vendor may be asked for, every other role becomes customer.
Register(a, r) ==
    /\ UNCHANGED <<catalog, cart, orders, procs, accounts, vowner, images, side>>
    /\ IF role[a] # Unregistered
       THEN /\ UNCHANGED role
            /\ resp' = [op |-> "register", user |-> a, code |-> 400]
       ELSE /\ role' = [role EXCEPT ![a] = IF r \in {"customer", "vendor"} THEN r
                                           ELSE "customer"]
            /\ resp' = [op |-> "register", user |-> a, code |-> 201]

\* A registration that never finds an existing profile.
HasVendorProfileNever(a) == FALSE

\* hasattr(request.user, 'vendor_profile')
HasVendorProfile(a) == \E v \in VendorIds : vowner[v] = a

\* A uniqueness check that compares the store names as they are written.
StoreNameExists(n) ==
    \E w \in VendorIds : vowner[w] # NoVendor /\ store_name[w] = n

\* VendorCreateSerializer.validate_store_name: filter(store_name__iexact=value)
StoreNameExistsIgnoringCase(n) == StoreNameTaken(n, NoVendor)

\* The id the new Vendor row takes.
FreeVendorIds == {v \in VendorIds : vowner[v] = NoVendor}
NewVendorId == CHOOSE v \in FreeVendorIds : TRUE

\* VendorRegisterView.create with VendorCreateSerializer.create
VendorRegister(a, n) ==
    LET req == [op |-> "vendor_register", user |-> a, store_name |-> n]
    IN  /\ UNCHANGED <<stock, sales_count, price, is_active, name, sku, deleted, view_count,
                       cart, orders, procs, accounts, images, side>>
        /\ IF role[a] = Unregistered
           THEN /\ UNCHANGED <<role, vowner, vstatus, store_name>>
                /\ resp' = Reply(req, 401, "not_authenticated")
           ELSE IF HasVendorProfile(a)
           THEN /\ UNCHANGED <<role, vowner, vstatus, store_name>>
                /\ resp' = Reply(req, 400, "already_vendor")
           ELSE IF StoreNameExistsIgnoringCase(n)
           THEN /\ UNCHANGED <<role, vowner, vstatus, store_name>>
                /\ resp' = Reply(req, 400, "store_name")
           ELSE /\ FreeVendorIds # {}
                /\ role' = [role EXCEPT ![a] = "vendor"]
                /\ vowner' = [vowner EXCEPT ![NewVendorId] = a]
                /\ vstatus' = [vstatus EXCEPT ![NewVendorId] = "pending"]
                /\ store_name' = [store_name EXCEPT ![NewVendorId] = n]
                /\ resp' = Reply(req, 201, "none")

\* ----------------------------------------------------------- order engine
\* A clear that deletes nothing.
clear_nothing(c) == c

\* Cart.clear: every item of the cart is deleted.
clear(c) == [p \in Products |-> Absent]

\* cart.items.all(): the caller's lines.
RECURSIVE LinesFrom(_, _)
LinesFrom(c, ps) ==
    IF ps = <<>> THEN <<>>
    ELSE LET rest == LinesFrom(c, Tail(ps))
         IN  IF c[Head(ps)] # Absent
             THEN <<[product |-> Head(ps), quantity |-> c[Head(ps)]]>> \o rest
             ELSE rest

CartLines(u) == LinesFrom(cart[u], ProductOrder)

\* The check of one line that lets through a request one above the stock.
InsufficientStockOffByOne(stk, quantity) == stk + 1 < quantity

\* The stock check of CheckoutView.post and of validate_items, for one line.
InsufficientStock(stk, quantity) == stk < quantity

\* Product.update_stock that forgets the sales counter.
update_stock_no_sales(obj, quantity) ==
    [stock |-> IF obj.stock - quantity < 0 THEN 0 ELSE obj.stock - quantity,
     sales_count |-> obj.sales_count]

\* Product.update_stock on a loaded product object (its stock and
\* sales_count fields); the result is what save() writes.
update_stock(obj, quantity) ==
    [stock |-> IF obj.stock - quantity < 0 THEN 0 ELSE obj.stock - quantity,
     sales_count |-> obj.sales_count + quantity]

\* DRF's DecimalField and Django's format_number round a Decimal, given here
\* in tenths of a cent, to the cent with ties to the even cent (the default
\* rounding of Python's decimal context).
Quantize(tenths) ==
    LET q == tenths \div 10
        r == tenths % 10
    IN  IF r < 5 THEN q
        ELSE IF r > 5 THEN q + 1
        ELSE IF q % 2 = 0 THEN q ELSE q + 1

\* A database that rounds a numeric column itself rounds ties upward.
QuantizeHalfUp(tenths) == (tenths + 5) \div 10

\* How the database in use rounds a value wider than the column.
RoundingModes == {"half_even", "half_up"}

\* OrderItem.objects.create in both checkout views: the snapshot of a line.
NewItem(p, quantity) ==
    [product |-> p, product_name |-> name[p], product_price |-> price[p],
     product_sku |-> sku[p], vendor_name |-> store_name[VendorOf(p)],
     quantity |-> quantity, subtotal |-> price[p] * quantity, status |-> "pending"]

\* The emails and shipping names an order may carry; an order of a signed-in
\* user has no guest email.
NoEmail == "none"
GuestEmail == "g1"
Emails == {NoEmail, "g1", "g2"}
ShippingName == "ship1"
ShippingNames == {"ship1", "ship2"}

\* Order.generate_order_number: the values uuid4().hex[:8] is drawn from, and a
\* draw that no order holds yet.
Draws == 1..MaxOrders
Taken(num) == \E n \in DOMAIN orders : orders[n].order_number = num
FreshNumber == CHOOSE num \in 1..(Len(orders) + 1) : ~Taken(num)

\* What is left of the rows written when the transaction is abandoned
\* without a rollback.
RollbackNone(before, after) == after

\* @transaction.atomic: an exception restores the rows as they were.
Rollback(before, after) == before

\* Order.objects.create: a pending order without items or totals.
NewOrder(owner, email, num) ==
    [order_number |-> num, user |-> owner, guest_email |-> email,
     shipping_full_name |-> ShippingName, status |-> "pending", items |-> <<>>,
     subtotal |-> 0, tax |-> 0, shipping_cost |-> 0, total |-> 0]

ItemsOf(lines) == [i \in DOMAIN lines |-> NewItem(lines[i].product, lines[i].quantity)]

\* Order.calculate_totals: the four totals the order object holds, in tenths
\* of a cent (the product subtotal * Decimal('0.10') has a third decimal).
calculate_totals(items) ==
    LET subtotal == SumSeq([i \in DOMAIN items |-> items[i].subtotal])
        tax == (10 * subtotal * TaxRatePercent) \div 100
        shipping_cost == IF subtotal < FreeShippingThreshold THEN ShippingFee ELSE 0
    IN  [subtotal |-> 10 * subtotal,
         tax |-> tax,
         shipping_cost |-> 10 * shipping_cost,
         total |-> 10 * subtotal + tax + 10 * shipping_cost]

\* The save at the end of calculate_totals: each of the four DecimalFields of
\* two decimal places is rounded on its own on the way to its column.
SavedTotals(o, t, mode) ==
    LET cents(x) == IF mode = "half_even" THEN Quantize(x) ELSE QuantizeHalfUp(x)
    IN  [o EXCEPT !.subtotal = cents(t.subtotal),
                  !.tax = cents(t.tax),
                  !.shipping_cost = cents(t.shipping_cost),
                  !.total = cents(t.total)]

\* OrderSerializer(order).data in the checkout responses: the order object
\* still holds the unrounded Decimals, each serialized on its own.
SerializedTotals(t) ==
    [subtotal |-> Quantize(t.subtotal),
     tax |-> Quantize(t.tax),
     shipping_cost |-> Quantize(t.shipping_cost),
     total |-> Quantize(t.total)]

\* The stock writes of CheckoutView.post: every line loads its product
\* afresh (cart_item.product), updates and saves it.
RECURSIVE SellCartLines(_, _)
SellCartLines(cat, lines) ==
    IF lines = <<>> THEN cat
    ELSE LET l == Head(lines)
             obj == update_stock([stock |-> cat.stock[l.product],
                                  sales_count |-> cat.sales_count[l.product]], l.quantity)
         IN  SellCartLines([stock |-> [cat.stock EXCEPT ![l.product] = obj.stock],
                            sales_count |-> [cat.sales_count EXCEPT ![l.product] = obj.sales_count]],
                           Tail(lines))

\* The stock writes of GuestCheckoutView.post: the product objects were all
\* loaded before the first write (snap), one object per line, so each line
\* updates and saves the values read then.
RECURSIVE SellGuestLines(_, _, _)
SellGuestLines(cat, snap, lines) ==
    IF lines = <<>> THEN cat
    ELSE LET l == Head(lines)
             obj == update_stock([stock |-> snap.stock[l.product],
                                  sales_count |-> snap.sales_count[l.product]], l.quantity)
         IN  SellGuestLines([stock |-> [cat.stock EXCEPT ![l.product] = obj.stock],
                             sales_count |-> [cat.sales_count EXCEPT ![l.product] = obj.sales_count]],
                            snap, Tail(lines))

\* A save that does not clear the other defaults.
ClearDefaultsNever(book, row) == book

\* Address.save: a default address of a user first clears the default flag
\* of every address of the same user and type, then the row is written.
ClearDefaults(book, row) ==
    IF row.is_default /\ row.user # "nobody"
    THEN [id \in AddressIds |->
            IF /\ book[id].user = row.user
               /\ book[id].address_type = row.address_type
               /\ book[id].is_default
            THEN [book[id] EXCEPT !.is_default = FALSE]
            ELSE book[id]]
    ELSE book

AddressSave(book, id, row) == [ClearDefaults(book, row) EXCEPT ![id] = row]

\* The ids not in use, and the id an insert takes.
FreeIds(book) == {id \in AddressIds : book[id] = NoAddress}
NewId(book) == CHOOSE id \in FreeIds(book) : \A other \in FreeIds(book) : id <= other

\* CheckoutView.post as one request; addr is the shipping address given and
\* num the order number Order.save generates.
CheckoutDraw(u, addr, num) ==
    LET lines == CartLines(u)
        saved == AddressSave(addresses, NewId(addresses),
                     [user |-> u, address_type |-> "shipping", is_default |-> FALSE])
        req == [op |-> "checkout", user |-> u]
        sold == SellCartLines([stock |-> stock, sales_count |-> sales_count], lines)
        items == ItemsOf(lines)
        totals == calculate_totals(items)
    IN  /\ UNCHANGED <<price, is_active, vstatus, labels, procs, others, saving>>
        /\ IF lines = <<>>
           THEN /\ resp' = Reply(req, 400, "empty")
                /\ UNCHANGED <<stock, sales_count, cart, orders, addresses>>
           ELSE IF \E i \in DOMAIN lines :
                     InsufficientStock(stock[lines[i].product], lines[i].quantity)
           THEN /\ resp' = Reply(req, 400, "stock")
                /\ UNCHANGED <<stock, sales_count, cart, orders, addresses>>
           ELSE IF addr.kind = "saved" /\ addresses[addr.address_id].user # u
           THEN /\ resp' = Reply(req, 400, "address")
                /\ UNCHANGED <<stock, sales_count, cart, orders, addresses>>
           ELSE IF Taken(num)
           THEN /\ addr = InlineSaved => FreeIds(addresses) # {}
                /\ addresses' = IF addr = InlineSaved
                                 THEN Rollback(addresses, saved) ELSE addresses
                /\ resp' = Reply(req, 500, "integrity")
                /\ UNCHANGED <<stock, sales_count, cart, orders>>
           ELSE /\ IF addr = InlineSaved
                   THEN /\ FreeIds(addresses) # {}
                        /\ addresses' = saved
                   ELSE UNCHANGED addresses
                /\ \E mode \in RoundingModes :
                     orders' = Append(orders,
                         SavedTotals([NewOrder(u, NoEmail, num) EXCEPT !.items = items],
                                     totals, mode))
                /\ stock' = sold.stock
                /\ sales_count' = sold.sales_count
                /\ cart' = [cart EXCEPT ![u] = clear(@)]
                /\ resp' = Reply(req, 201, "none") @@ [order |-> SerializedTotals(totals)]

\* The checkout whose generated number is new, as all but one in 2^32 are.
Checkout(u, addr) == CheckoutDraw(u, addr, FreshNumber)

\* GuestCheckoutSerializer.validate_items: the first line that fails.
RECURSIVE ValidateItems(_)
ValidateItems(items) ==
    IF items = <<>> THEN "ok"
    ELSE LET l == Head(items)
         IN  IF l.product \in deleted THEN "not_found"
             ELSE IF ~is_active[l.product] THEN "unavailable"
             ELSE IF InsufficientStock(stock[l.product], l.quantity) THEN "stock"
             ELSE ValidateItems(Tail(items))

\* GuestCheckoutView.post; num is the order number Order.save generates.
GuestCheckoutDraw(lines, num) ==
    LET bad == ValidateItems(lines)
        req == [op |-> "guest_checkout", user |-> Guest]
        snap == [stock |-> stock, sales_count |-> sales_count]
        sold == SellGuestLines(snap, snap, lines)
        items == ItemsOf(lines)
        totals == calculate_totals(items)
    IN  /\ UNCHANGED <<price, is_active, vstatus, labels, cart, procs, others, accounts>>
        /\ IF bad # "ok"
           THEN /\ resp' = Reply(req, 400, bad)
                /\ UNCHANGED <<stock, sales_count, orders>>
           ELSE IF Taken(num)
           THEN /\ resp' = Reply(req, 500, "integrity")
                /\ UNCHANGED <<stock, sales_count, orders>>
           ELSE /\ \E mode \in RoundingModes :
                     orders' = Append(orders,
                         SavedTotals([NewOrder(Guest, GuestEmail, num) EXCEPT !.items = items],
                                     totals, mode))
                /\ stock' = sold.stock
                /\ sales_count' = sold.sales_count
                /\ resp' = Reply(req, 201, "none") @@ [order |-> SerializedTotals(totals)]

GuestCheckout(lines) == GuestCheckoutDraw(lines, FreshNumber)

\* ------------------------------------------------------ guest order lookup
\* The email query parameter of a lookup: left out, or an address.
MissingEmail == ""
RequestEmails == {MissingEmail, "g1", "g2"}

\* A lookup that selects on the order number alone.
GuestEmailIgnored(o, email) == TRUE

\* The filter guest_email=email of Order.objects.get.
GuestEmailIs(o, email) == o.guest_email = email

\* GuestOrderDetailView.get as a function of the stored orders: the status
\* code, the error and the serialized orders in the body.
GuestOrderLookup(stored, num, email) ==
    LET found == {n \in DOMAIN stored :
                     stored[n].order_number = num /\ GuestEmailIs(stored[n], email)}
    IN  IF email = MissingEmail
        THEN [code |-> 400, err |-> "email_required", data |-> <<>>]
        ELSE IF found = {}
        THEN [code |-> 404, err |-> "not_found", data |-> <<>>]
        ELSE [code |-> 200, err |-> "none", data |-> <<stored[CHOOSE n \in found : TRUE]>>]

\* GuestOrderDetailView.get
GuestOrderDetail(num, email) ==
    /\ UNCHANGED <<catalog, cart, orders, procs, others, accounts>>
    /\ resp' = [op |-> "guest_order", order_number |-> num, email |-> email]
                  @@ GuestOrderLookup(orders, num, email)

\* ------------------------------------------------------------ order reads
\* OrderDetailView: the queryset holds the caller's orders.
OrderDetail(u, n) ==
    LET req == [op |-> "order_detail", user |-> u, order |-> n]
    IN  /\ UNCHANGED <<catalog, cart, orders, procs, others, accounts>>
        /\ IF n > Len(orders) \/ (n <= Len(orders) /\ orders[n].user # u)
           THEN resp' = Reply(req, 404, "not_found") @@ [data |-> <<>>]
           ELSE resp' = Reply(req, 200, "none") @@ [data |-> <<orders[n]>>]

\* order.items.filter(product__vendor=vendor)
ItemsOfVendor(items, v) ==
    SelectSeq(items, LAMBDA it : it.product # NoProduct /\ VendorOf(it.product) = v)

\* VendorOrderItemsView.get
VendorOrderItems(v, n) ==
    LET req == [op |-> "vendor_order_items", vendor |-> v, order |-> n]
    IN  /\ UNCHANGED <<catalog, cart, orders, procs, others, accounts>>
        /\ IF n > Len(orders)
           THEN resp' = Reply(req, 404, "not_found") @@ [data |-> <<>>]
           ELSE IF ItemsOfVendor(orders[n].items, v) = <<>>
           THEN resp' = Reply(req, 404, "no_items_from_store") @@ [data |-> <<>>]
           ELSE resp' = Reply(req, 200, "none")
                           @@ [data |-> ItemsOfVendor(orders[n].items, v)]

\* ------------------------------------------------------ public catalog reads
\* The one category of the catalog, its products, the featured flag and the
\* search terms a visitor may type (the empty one finds nothing).
Category1 == "c1"
CategoryOf(p) == Category1
is_featured(p) == TRUE
Queries == {"", "name1", "name2"}

\* The product rows that exist.
Rows == Products \ deleted

\* A product filter that looks at the product's flag only.
ActiveOnly(p) == is_active[p]

\* filter(is_active=True, vendor__status='approved')
ActiveApproved(p) == is_active[p] /\ vstatus[VendorOf(p)] = "approved"

\* The answer of a list view: the products in it.
Listing(op, found) == [op |-> op, code |-> 200, products |-> found]

\* ProductListView, without and with the category_slug filter.
ProductList ==
    /\ UNCHANGED <<catalog, cart, orders, procs, others, accounts>>
    /\ resp' = Listing("product_list", {p \in Rows : ActiveApproved(p)})

CategoryProductList(c) ==
    /\ UNCHANGED <<catalog, cart, orders, procs, others, accounts>>
    /\ resp' = Listing("category_products",
                       {p \in Rows : ActiveApproved(p) /\ CategoryOf(p) = c})

\* FeaturedProductsView
FeaturedProducts ==
    /\ UNCHANGED <<catalog, cart, orders, procs, others, accounts>>
    /\ resp' = Listing("featured", {p \in Rows : ActiveApproved(p) /\ is_featured(p)})

\* ProductSearchView: no term, no result.
ProductSearch(q) ==
    /\ UNCHANGED <<catalog, cart, orders, procs, others, accounts>>
    /\ resp' = Listing("search",
                       IF q = "" THEN {}
                       ELSE {p \in Rows : ActiveApproved(p) /\ name[p] = q})

\* ProductDetailView.retrieve (by slug): a product found has its view count
\* incremented.
ProductDetail(p) ==
    /\ UNCHANGED <<stock, sales_count, price, is_active, vstatus, name, sku, store_name,
                   deleted, cart, orders, procs, others, accounts>>
    /\ IF p \in Rows /\ ActiveApproved(p)
       THEN /\ view_count' = [view_count EXCEPT ![p] = @ + 1]
            /\ resp' = Listing("product_detail", {p})
       ELSE /\ UNCHANGED view_count
            /\ resp' = [op |-> "product_detail", code |-> 404, products |-> {}]

\* ProductByIdView
ProductById(p) ==
    /\ UNCHANGED <<catalog, cart, orders, procs, others, accounts>>
    /\ IF p \in Rows /\ ActiveApproved(p)
       THEN resp' = Listing("product_by_id", {p})
       ELSE resp' = [op |-> "product_by_id", code |-> 404, products |-> {}]

\* CategorySerializer.get_product_count, as CategoryListView and
\* CategoryDetailView return it: the products counted and their number.
CategoryDetail(c) ==
    LET counted == {p \in Rows : CategoryOf(p) = c /\ ActiveOnly(p)}
    IN  /\ UNCHANGED <<catalog, cart, orders, procs, others, accounts>>
        /\ resp' = Listing("category_detail", counted)
                      @@ [product_count |-> Cardinality(counted)]

\* ---------------------------------------------------------- address views
\* AddressListCreateView (POST): the caller's new address.
AddressCreate(u, t, d) ==
    LET req == [op |-> "address_create", user |-> u]
    IN  /\ UNCHANGED <<catalog, cart, orders, procs, others, saving>>
        /\ FreeIds(addresses) # {}
        /\ addresses' = AddressSave(addresses, NewId(addresses),
                            [user |-> u, address_type |-> t, is_default |-> d])
        /\ resp' = Reply(req, 201, "none") @@ [address |-> NewId(addresses)]

\* AddressDetailView (PUT/PATCH): the queryset holds the caller's addresses.
AddressUpdate(u, id, t, d) ==
    LET req == [op |-> "address_update", user |-> u, address |-> id]
    IN  /\ UNCHANGED <<catalog, cart, orders, procs, others, saving>>
        /\ IF addresses[id].user # u
           THEN /\ resp' = Reply(req, 404, "not_found")
                /\ UNCHANGED addresses
           ELSE /\ addresses' = AddressSave(addresses, id,
                                    [user |-> u, address_type |-> t, is_default |-> d])
                /\ resp' = Reply(req, 200, "none")

\* AddressDetailView (DELETE)
AddressDelete(u, id) ==
    LET req == [op |-> "address_delete", user |-> u, address |-> id]
    IN  /\ UNCHANGED <<catalog, cart, orders, procs, others, saving>>
        /\ IF addresses[id].user # u
           THEN /\ resp' = Reply(req, 404, "not_found")
                /\ UNCHANGED addresses
           ELSE /\ addresses' = [addresses EXCEPT ![id] = NoAddress]
                /\ resp' = Reply(req, 204, "none")

\* Address.save of a new address, statement by statement, for requests that
\* run side by side: the update that clears the defaults (lines 162-168) ...
S_Clear(r, u, t, d) ==
    LET row == [user |-> u, address_type |-> t, is_default |-> d]
    IN  /\ saving[r].stage = "idle"
        /\ Cardinality(FreeIds(addresses))
             > Cardinality({q \in Requests : saving[q].stage = "insert"})
        /\ UNCHANGED <<catalog, cart, orders, resp, procs, others>>
        /\ addresses' = ClearDefaults(addresses, row)
        /\ saving' = [saving EXCEPT ![r] = [stage |-> "insert", id |-> 0, row |-> row]]

\* ... and the insert of the row (line 169).
S_Insert(r) ==
    /\ saving[r].stage = "insert"
    /\ UNCHANGED <<catalog, cart, orders, procs, others>>
    /\ addresses' = [addresses EXCEPT ![NewId(addresses)] = saving[r].row]
    /\ saving' = [saving EXCEPT ![r] = NoSave]
    /\ resp' = Reply([op |-> "address_create", user |-> saving[r].row.user], 201, "none")
                 @@ [address |-> NewId(addresses)]

\* ------------------------------------- CheckoutView.post, statement by statement
\* Two requests of different users run side by side.  The view takes no row
\* lock (no select_for_update), so between the statements of one request the
\* other may run; pc is the statement a request is at, local its variables.

\* Lines 40-59: the cart is read and every line checked against the stock.
C_Validate(u) ==
    LET lines == CartLines(u)
        req == [op |-> "checkout", user |-> u]
    IN  /\ pc[u] = "idle"
        /\ UNCHANGED <<accounts, others, catalog, cart, orders, local>>
        /\ IF lines = <<>>
           THEN /\ resp' = Reply(req, 400, "empty")
                /\ pc' = [pc EXCEPT ![u] = "empty_error"]
           ELSE IF \E i \in DOMAIN lines :
                     InsufficientStock(stock[lines[i].product], lines[i].quantity)
           THEN /\ resp' = Reply(req, 400, "stock")
                /\ pc' = [pc EXCEPT ![u] = "stock_error"]
           ELSE /\ UNCHANGED resp
                /\ pc' = [pc EXCEPT ![u] = "validated"]

\* Line 107: the order row; line 114 reads the cart's lines for the loop.
C_CreateOrder(u) ==
    /\ pc[u] = "validated"
    /\ UNCHANGED <<accounts, others, catalog, cart, resp>>
    /\ orders' = Append(orders, NewOrder(u, NoEmail, FreshNumber))
    /\ local' = [local EXCEPT ![u].order = Len(orders) + 1, ![u].todo = CartLines(u)]
    /\ pc' = [pc EXCEPT ![u] = "loop"]

\* Lines 115-124: the line's product is loaded (cart_item.product) and the
\* OrderItem created from it.
C_LoadItem(u) ==
    LET l == Head(local[u].todo)
        n == local[u].order
    IN  /\ pc[u] = "loop" /\ local[u].todo # <<>>
        /\ UNCHANGED <<accounts, others, catalog, cart, resp>>
        /\ orders' = [orders EXCEPT ![n].items = Append(@, NewItem(l.product, l.quantity))]
        /\ local' = [local EXCEPT ![u].stock = stock[l.product],
                                  ![u].sales_count = sales_count[l.product]]
        /\ pc' = [pc EXCEPT ![u] = "save"]

\* Line 127: update_stock on the loaded object, saved over the row.
C_SaveStock(u) ==
    LET l == Head(local[u].todo)
        obj == update_stock([stock |-> local[u].stock,
                             sales_count |-> local[u].sales_count], l.quantity)
    IN  /\ pc[u] = "save"
        /\ UNCHANGED <<accounts, others, price, is_active, vstatus, labels, cart, orders, resp>>
        /\ stock' = [stock EXCEPT ![l.product] = obj.stock]
        /\ sales_count' = [sales_count EXCEPT ![l.product] = obj.sales_count]
        /\ local' = [local EXCEPT ![u].todo = Tail(@)]
        /\ pc' = [pc EXCEPT ![u] = "loop"]

\* Lines 130-138: the totals, the cart cleared, the response.
C_Finish(u) ==
    LET n == local[u].order
        totals == calculate_totals(orders[n].items)
        req == [op |-> "checkout", user |-> u]
    IN  /\ pc[u] = "loop" /\ local[u].todo = <<>>
        /\ UNCHANGED <<accounts, others, catalog, local>>
        /\ \E mode \in RoundingModes :
              orders' = [orders EXCEPT ![n] = SavedTotals(@, totals, mode)]
        /\ cart' = [cart EXCEPT ![u] = clear(@)]
        /\ resp' = Reply(req, 201, "none") @@ [order |-> SerializedTotals(totals)]
        /\ pc' = [pc EXCEPT ![u] = "ok"]

\* A restore that subtracts the quantity instead of adding it back.
RestoreLineSubtract(stk, quantity) == stk - quantity

\* CancelOrderView.post, one line: item.product.stock += item.quantity
RestoreLine(stk, quantity) == stk + quantity

RECURSIVE RestoreStock(_, _)
RestoreStock(st, items) ==
    IF items = <<>> THEN st
    ELSE LET it == Head(items)
         IN  IF it.product = NoProduct
             THEN RestoreStock(st, Tail(items))
             ELSE RestoreStock([st EXCEPT ![it.product] =
                                   RestoreLine(st[it.product], it.quantity)], Tail(items))

\* order.items.update(status=s)
WithItemStatus(items, s) == [i \in DOMAIN items |-> [items[i] EXCEPT !.status = s]]

\* A status test that refuses only the cancelled orders.
CancellableUnlessCancelled(o) == o.status # "cancelled"

\* The status test of CancelOrderView.post.
Cancellable(o) == o.status = "pending"

\* CancelOrderView.post; n is the order number in the URL.
CancelOrder(u, n) ==
    LET req == [op |-> "cancel", user |-> u, order |-> n]
    IN  /\ UNCHANGED <<sales_count, price, is_active, vstatus, labels, cart, procs, others, accounts>>
        /\ IF n > Len(orders) \/ (n <= Len(orders) /\ orders[n].user # u)
           THEN /\ resp' = Reply(req, 404, "not_found")
                /\ UNCHANGED <<stock, orders>>
           ELSE IF ~Cancellable(orders[n])
           THEN /\ resp' = Reply(req, 400, "not_pending")
                /\ UNCHANGED <<stock, orders>>
           ELSE /\ orders' = [orders EXCEPT ![n].status = "cancelled",
                                            ![n].items = WithItemStatus(@, "cancelled")]
                /\ stock' = RestoreStock(stock, orders[n].items)
                /\ resp' = Reply(req, 200, "none")

\* AdminUpdateOrderStatusView.patch
AdminUpdateOrderStatus(n, s) ==
    LET req == [op |-> "admin_status", order |-> n, status |-> s]
    IN  /\ UNCHANGED <<catalog, cart, procs, others, accounts>>
        /\ IF n > Len(orders)
           THEN /\ resp' = Reply(req, 404, "not_found")
                /\ UNCHANGED orders
           ELSE /\ orders' = [orders EXCEPT ![n].status = s,
                                            ![n].items = WithItemStatus(@, s)]
                /\ resp' = Reply(req, 200, "none")

\* ---------------------------------- CancelOrderView.post, statement by statement
\* Two requests for the same order run side by side.  The view is not atomic
\* and takes no row lock, so between the statements of one request the other
\* may run; cancelling[r].stage is the statement request r is at.

\* Lines 266-283: the order is read and its status checked.
X_Check(r, u, n) ==
    LET req == [op |-> "cancel", user |-> u, order |-> n]
    IN  /\ cancelling[r].stage = "idle"
        /\ UNCHANGED <<catalog, cart, orders, procs, people, images, total_sales, accounts>>
        /\ IF n > Len(orders) \/ (n <= Len(orders) /\ orders[n].user # u)
           THEN /\ resp' = Reply(req, 404, "not_found")
                /\ cancelling' = [cancelling EXCEPT ![r].stage = "done"]
           ELSE IF ~Cancellable(orders[n])
           THEN /\ resp' = Reply(req, 400, "not_pending")
                /\ cancelling' = [cancelling EXCEPT ![r].stage = "done"]
           ELSE /\ UNCHANGED resp
                /\ cancelling' = [cancelling EXCEPT ![r] =
                      [stage |-> "checked", user |-> u, order |-> n, todo |-> <<>>, stock |-> 0]]

\* Lines 286-287: order.status = 'cancelled'; order.save().
X_SaveStatus(r) ==
    /\ cancelling[r].stage = "checked"
    /\ UNCHANGED <<catalog, cart, resp, procs, people, images, total_sales, accounts>>
    /\ orders' = [orders EXCEPT ![cancelling[r].order].status = "cancelled"]
    /\ cancelling' = [cancelling EXCEPT ![r].stage = "saved"]

\* Lines 290 and 293: order.items.update(status='cancelled'), then the items
\* are read for the loop.
X_UpdateItems(r) ==
    LET n == cancelling[r].order
    IN  /\ cancelling[r].stage = "saved"
        /\ UNCHANGED <<catalog, cart, resp, procs, people, images, total_sales, accounts>>
        /\ orders' = [orders EXCEPT ![n].items = WithItemStatus(@, "cancelled")]
        /\ cancelling' = [cancelling EXCEPT ![r].stage = "loop", ![r].todo = orders[n].items]

\* Line 294: item.product loads the product row, unless the product is gone.
X_LoadProduct(r) ==
    LET it == Head(cancelling[r].todo)
    IN  /\ cancelling[r].stage = "loop" /\ cancelling[r].todo # <<>>
        /\ UNCHANGED <<catalog, cart, orders, resp, procs, people, images, total_sales, accounts>>
        /\ cancelling' = [cancelling EXCEPT ![r] =
              IF it.product = NoProduct
              THEN [@ EXCEPT !.todo = Tail(@)]
              ELSE [@ EXCEPT !.stage = "loaded", !.stock = stock[it.product]]]

\* Lines 295-296: the quantity is added to the loaded object's stock and the
\* stock column saved.
X_SaveProduct(r) ==
    LET it == Head(cancelling[r].todo)
    IN  /\ cancelling[r].stage = "loaded"
        /\ UNCHANGED <<sales_count, price, is_active, vstatus, labels, cart, orders, resp,
                       procs, people, images, total_sales, accounts>>
        /\ stock' = [stock EXCEPT ![it.product] = RestoreLine(cancelling[r].stock, it.quantity)]
        /\ cancelling' = [cancelling EXCEPT ![r].stage = "loop", ![r].todo = Tail(@)]

\* Lines 298-301: the response.
X_Finish(r) ==
    /\ cancelling[r].stage = "loop" /\ cancelling[r].todo = <<>>
    /\ UNCHANGED <<catalog, cart, orders, procs, people, images, total_sales, accounts>>
    /\ resp' = Reply([op |-> "cancel", user |-> cancelling[r].user,
                      order |-> cancelling[r].order], 200, "none")
    /\ cancelling' = [cancelling EXCEPT ![r].stage = "done"]

\* A PATCH body for OrderSerializer: each writable field is given or left
\* out; order_number, user and the totals are read-only and ignored.
Keep == "keep"
OrderPatches ==
    [status : OrderStatuses \cup {Keep}, guest_email : Emails \cup {Keep},
     shipping_full_name : ShippingNames \cup {Keep}]
StatusPatch(s) == [status |-> s, guest_email |-> Keep, shipping_full_name |-> Keep]
Patched(old, new) == IF new = Keep THEN old ELSE new

\* AdminOrderDetailView (RetrieveUpdateAPIView over OrderSerializer): a PATCH
\* of the serializer's writable fields.
AdminOrderUpdate(n, data) ==
    LET req == [op |-> "admin_update", order |-> n, status |-> data.status]
    IN  /\ UNCHANGED <<catalog, cart, procs, others, accounts>>
        /\ IF n > Len(orders)
           THEN /\ resp' = Reply(req, 404, "not_found")
                /\ UNCHANGED orders
           ELSE /\ orders' = [orders EXCEPT
                     ![n].status = Patched(@, data.status),
                     ![n].guest_email = Patched(@, data.guest_email),
                     ![n].shipping_full_name = Patched(@, data.shipping_full_name)]
                /\ resp' = Reply(req, 200, "none")

\* An item update that overwrites the status of every item of the order.
SetItemStatusAll(items, i, s) == [j \in DOMAIN items |-> [items[j] EXCEPT !.status = s]]

\* item.status = ...; item.save(): the one item's status.
SetItemStatus(items, i, s) == [items EXCEPT ![i].status = s]

\* Vendor.update_sales_count: the vendor's order items in shipped or delivered
\* orders.
RECURSIVE SalesCount(_, _)
SalesCount(stored, v) ==
    IF stored = <<>> THEN 0
    ELSE (IF Head(stored).status \in {"shipped", "delivered"}
          THEN Len(SelectSeq(Head(stored).items,
                      LAMBDA it : it.product # NoProduct /\ VendorOf(it.product) = v))
          ELSE 0) + SalesCount(Tail(stored), v)

\* VendorUpdateOrderItemStatusView.patch; (n, i) is the item's id.
VendorUpdateItemStatus(v, n, i, s) ==
    LET req == [op |-> "vendor_item_status", vendor |-> v, order |-> n, item |-> i,
                status |-> s]
    IN  /\ UNCHANGED <<catalog, cart, procs, people, images, cancelling, accounts>>
        /\ IF n > Len(orders) \/ (n <= Len(orders) /\ i > Len(orders[n].items))
           THEN /\ resp' = Reply(req, 404, "not_found")
                /\ UNCHANGED <<orders, total_sales>>
           ELSE IF \/ orders[n].items[i].product = NoProduct
                   \/ VendorOf(orders[n].items[i].product) # v
           THEN /\ resp' = Reply(req, 404, "not_found")
                /\ UNCHANGED <<orders, total_sales>>
           ELSE /\ orders' = [orders EXCEPT ![n].items = SetItemStatus(@, i, s)]
                /\ total_sales' = IF s = "delivered"
                                   THEN [total_sales EXCEPT ![v] = SalesCount(orders', v)]
                                   ELSE total_sales
                /\ resp' = Reply(req, 200, "none")

\* ------------------------------------------------------ cart specification
CartNext ==
    \/ \E p \in Products, q \in Quantities : AddToCart(Shopper, p, q)
    \/ \E owner \in Users, p \in Products, q \in Quantities :
          UpdateCartItem(Shopper, owner, p, q)
    \/ \E owner \in Users, p \in Products : RemoveFromCart(Shopper, owner, p)
    \/ \E items \in ItemLists : MergeCart(Shopper, items)
    \/ \E p \in Products, s \in 0..MaxStock, a \in BOOLEAN :
          VendorProductUpdate(p, StockEdit(p, s, a))
    \/ \E v \in Vendors, action \in ApprovalActions : VendorApproval(v, action)

SpecCart == Init /\ [][CartNext]_vars

\* ------------------------------------------------------ merge specification
\* Guest carts, some naming a product that does not exist, are merged into
\* the shopper's cart while vendors change their products and come and go.
MergeNext ==
    \/ \E items \in GuestLists : MergeCart(Shopper, items)
    \/ \E p \in Products, s \in 0..MaxStock, a \in BOOLEAN :
          VendorProductUpdate(p, StockEdit(p, s, a))
    \/ \E v \in Vendors, action \in {"approve", "suspend"} : VendorApproval(v, action)

SpecMerge == Init /\ [][MergeNext]_vars

\* ----------------------------------------------------- address specification
\* Both users keep their address books; the shopper also checks out with an
\* inline, a saved or a to-be-saved address.
AddressNext ==
    \/ \E u \in Users, t \in AddressTypes, d \in BOOLEAN : AddressCreate(u, t, d)
    \/ \E u \in Users, id \in AddressIds, t \in AddressTypes, d \in BOOLEAN :
          AddressUpdate(u, id, t, d)
    \/ \E u \in Users, id \in AddressIds : AddressDelete(u, id)
    \/ AddToCart(Shopper, "p2", 1)
    \/ \E addr \in AddressChoices :
          Checkout(Shopper, addr) /\ Len(orders') <= MaxManagedOrders

SpecAddress == Init /\ [][AddressNext]_vars

\* Address saves of the two users, their statements interleaved.
AddressConcNext ==
    \/ \E r \in Requests, u \in Users, t \in AddressTypes, d \in BOOLEAN : S_Clear(r, u, t, d)
    \/ \E r \in Requests : S_Insert(r)
    \/ \E u \in Users, id \in AddressIds : AddressDelete(u, id)

SpecAddressConc == Init /\ [][AddressConcNext]_vars

\* ------------------------------------------------- two-cart specification
\* Both users fill their carts and check out, next to guest checkouts.
FrameNext ==
    \/ \E u \in Users, p \in Products, q \in Quantities : AddToCart(u, p, q)
    \/ \E u \in Users : Checkout(u, Inline) /\ Len(orders') <= MaxOrders
    \/ \E items \in ItemLists : GuestCheckout(items) /\ Len(orders') <= MaxOrders

SpecFrame == Init /\ [][FrameNext]_vars

\* ------------------------------------------ shopping and order specification
\* One shopper and the guests shop, check out and cancel.
OrderNumbers == 1..MaxOrders

Next ==
    \/ \E p \in Products, q \in Quantities : AddToCart(Shopper, p, q)
    \/ \E p \in Products, q \in Quantities : UpdateCartItem(Shopper, Shopper, p, q)
    \/ \E items \in ItemLists : MergeCart(Shopper, items)
    \/ Checkout(Shopper, Inline) /\ Len(orders') <= MaxOrders
    \/ \E items \in ItemLists : GuestCheckout(items) /\ Len(orders') <= MaxOrders
    \/ \E u \in Users, n \in OrderNumbers : CancelOrder(u, n)

Spec == Init /\ [][Next]_vars

\* ---------------------------------------------- store-wide specification
\* The same operations with the administrator's status update.  An order the
\* administrator sets back to pending can be cancelled again, and every such
\* cancellation adds its quantities to the stock: StockCap bounds the stock.
ManagedOrders == 1..MaxManagedOrders
StockCap == MaxStock + 1

StoreNext ==
    \/ \E p \in Products, q \in Quantities : AddToCart(Shopper, p, q)
    \/ \E p \in Products, q \in Quantities : UpdateCartItem(Shopper, Shopper, p, q)
    \/ \E items \in ItemLists : MergeCart(Shopper, items)
    \/ Checkout(Shopper, Inline) /\ Len(orders') <= MaxManagedOrders
    \/ \E items \in ItemLists : GuestCheckout(items) /\ Len(orders') <= MaxManagedOrders
    \/ \E u \in Users, n \in ManagedOrders :
          CancelOrder(u, n) /\ \A p \in Products : stock'[p] <= StockCap
    \/ \E n \in ManagedOrders, s \in OrderStatuses : AdminUpdateOrderStatus(n, s)

SpecStore == Init /\ [][StoreNext]_vars

\* ---------------------------------------------- order status specification
\* Everything that writes a status: checkout, cancel, the administrator's two
\* views and the vendor's item update.
StatusNext ==
    \/ \E p \in Products, q \in Quantities : AddToCart(Shopper, p, q)
    \/ Checkout(Shopper, Inline) /\ Len(orders') <= MaxManagedOrders
    \/ \E n \in ManagedOrders :
          CancelOrder(Shopper, n) /\ \A p \in Products : stock'[p] <= StockCap
    \/ \E n \in ManagedOrders, s \in OrderStatuses : AdminUpdateOrderStatus(n, s)
    \/ \E n \in ManagedOrders, s \in OrderStatuses : AdminOrderUpdate(n, StatusPatch(s))
    \/ \E v \in Vendors, n \in ManagedOrders, i \in 1..MaxLines, s \in OrderStatuses :
          VendorUpdateItemStatus(v, n, i, s)

SpecStatus == Init /\ [][StatusNext]_vars

\* -------------------------------------------------- round trip specification
\* One shopper alone: the only writers of stock are their own checkouts and
\* cancellations.
RoundTripNext ==
    \/ \E p \in Products, q \in Quantities : AddToCart(Shopper, p, q)
    \/ \E p \in Products, q \in Quantities : UpdateCartItem(Shopper, Shopper, p, q)
    \/ \E p \in Products : RemoveFromCart(Shopper, Shopper, p)
    \/ Checkout(Shopper, Inline) /\ Len(orders') <= MaxOrders
    \/ \E n \in OrderNumbers : CancelOrder(Shopper, n)

SpecRoundTrip == Init /\ [][RoundTripNext]_vars

\* ------------------------------------------------------ totals specification
\* The catalogue starts with any prices of PriceSet; carts are checked out.
TotalsInit ==
    /\ stock = InitStock
    /\ sales_count = [p \in Products |-> 0]
    /\ price \in [Products -> PriceSet]
    /\ is_active = [p \in Products |-> TRUE]
    /\ vstatus = InitStatus
    /\ cart = [u \in Users |-> [p \in Products |-> Absent]]
    /\ orders = <<>>
    /\ resp = [op |-> "none", code |-> 0]
    /\ pc = [u \in Users |-> "idle"]
    /\ local = [u \in Users |-> NoLocal]
    /\ addresses = [id \in AddressIds |-> NoAddress]
    /\ saving = [r \in Requests |-> NoSave]
    /\ name = [p \in Products |-> "name1"]
    /\ sku = InitSku
    /\ store_name = InitStoreName
    /\ deleted = {}
    /\ view_count = [p \in Products |-> 0]
    /\ role = InitRole
    /\ vowner = InitOwner
    /\ images = [p \in Products |-> <<>>]
    /\ cancelling = [r \in Requests |-> NoCancel]
    /\ total_sales = [v \in VendorIds |-> 0]

TotalsNext ==
    \/ \E p \in Products, q \in Quantities : AddToCart(Shopper, p, q)
    \/ Checkout(Shopper, Inline) /\ Len(orders') <= MaxManagedOrders
    \/ \E items \in ItemLists : GuestCheckout(items) /\ Len(orders') <= MaxManagedOrders

SpecTotals == TotalsInit /\ [][TotalsNext]_vars

\* ------------------------------------------ concurrent checkout specification
\* Both users fill their carts, then each posts one checkout; the statements
\* of the two requests interleave.
ConcNext ==
    \/ \E u \in Users, p \in Products, q \in Quantities :
          (\A v \in Users : pc[v] = "idle") /\ AddToCart(u, p, q)
    \/ \E u \in Users : C_Validate(u)
    \/ \E u \in Users : C_CreateOrder(u)
    \/ \E u \in Users : C_LoadItem(u)
    \/ \E u \in Users : C_SaveStock(u)
    \/ \E u \in Users : C_Finish(u)

SpecConc == Init /\ [][ConcNext]_vars

\* ------------------------------------------------- snapshot specification
\* The changes a vendor makes to one field of a listed product.
FieldEdits(p) ==
    { [StockEdit(p, stock[p], is_active[p]) EXCEPT !.name = "name2"],
      [StockEdit(p, stock[p], is_active[p]) EXCEPT !.sku = "sku2"],
      [StockEdit(p, stock[p], is_active[p]) EXCEPT !.sku = "sku3"],
      [StockEdit(p, stock[p], is_active[p]) EXCEPT !.price = 2500],
      StockEdit(p, 0, is_active[p]),
      StockEdit(p, stock[p], FALSE) }

\* The shopper orders products; afterwards the vendor of p1 edits, renames or
\* deletes the product and renames the store, and the shopper may cancel.
SnapshotNext ==
    \/ \E p \in Products : AddToCart(Shopper, p, 1)
    \/ Checkout(Shopper, Inline) /\ Len(orders') <= MaxManagedOrders
    \/ \E edit \in FieldEdits("p1") : VendorProductUpdate("p1", edit)
    \/ VendorProductDelete("p1")
    \/ \E newName \in {"store2", "store3"} : VendorProfileUpdate("v1", newName)
    \/ \E n \in ManagedOrders : CancelOrder(Shopper, n)

SpecSnapshot == Init /\ [][SnapshotNext]_vars

\* --------------------------------------------- order header specification
\* One order of the shopper or of a guest, and every view that writes to an
\* order afterwards: cancel, the administrator's two views, the vendor's
\* item update.
HeaderNext ==
    \/ AddToCart(Shopper, "p2", 1)
    \/ Checkout(Shopper, Inline) /\ Len(orders') <= MaxManagedOrders
    \/ GuestCheckout(<<[product |-> "p2", quantity |-> 1]>>)
          /\ Len(orders') <= MaxManagedOrders
    \/ \E n \in ManagedOrders :
          CancelOrder(Shopper, n) /\ \A p \in Products : stock'[p] <= StockCap
    \/ \E n \in ManagedOrders, s \in OrderStatuses : AdminUpdateOrderStatus(n, s)
    \/ \E n \in ManagedOrders, data \in OrderPatches : AdminOrderUpdate(n, data)
    \/ \E v \in Vendors, n \in ManagedOrders, s \in OrderStatuses :
          VendorUpdateItemStatus(v, n, 1, s)

SpecHeader == Init /\ [][HeaderNext]_vars

\* --------------------------------------------- order number specification
\* Checkouts whose generated order number is any of the draws, so that a later
\* one may draw the number of an earlier order.
NumbersNext ==
    \/ AddToCart(Shopper, "p2", 1)
    \/ \E addr \in {Inline, InlineSaved}, num \in Draws :
          CheckoutDraw(Shopper, addr, num) /\ Len(orders') <= MaxOrders
    \/ \E num \in Draws :
          GuestCheckoutDraw(<<[product |-> "p2", quantity |-> 1]>>, num)
             /\ Len(orders') <= MaxOrders
    \/ \E s \in 0..MaxStock : VendorProductUpdate("p2", StockEdit("p2", s, TRUE))

SpecNumbers == Init /\ [][NumbersNext]_vars

\* --------------------------------------------- guest lookup specification
\* Orders of the shopper and of guests, an administrator rewriting an order's
\* guest email, and lookups with every order number and email.
NoSuchNumber == MaxOrders + 1

LookupNext ==
    \/ AddToCart(Shopper, "p2", 1)
    \/ Checkout(Shopper, Inline) /\ Len(orders') <= MaxOrders
    \/ GuestCheckout(<<[product |-> "p2", quantity |-> 1]>>) /\ Len(orders') <= MaxOrders
    \/ \E n \in OrderNumbers, e \in Emails :
          AdminOrderUpdate(n, [StatusPatch(Keep) EXCEPT !.guest_email = e])
    \/ \E num \in OrderNumbers \cup {NoSuchNumber}, email \in RequestEmails :
          GuestOrderDetail(num, email)

SpecLookup == Init /\ [][LookupNext]_vars

\* ------------------------------------------------ ownership specification
\* Two users with carts, addresses and one order between them, two vendors,
\* and every view that is addressed by an id or an order number, called by
\* the owner and by the other party.
OwnershipNext ==
    \/ \E u \in Users : AddToCart(u, "p2", 1)
    \/ \E u, owner \in Users : UpdateCartItem(u, owner, "p2", 1)
    \/ \E u, owner \in Users : RemoveFromCart(u, owner, "p2")
    \/ \E u \in Users : AddressCreate(u, "shipping", FALSE)
    \/ \E u \in Users, id \in AddressIds : AddressUpdate(u, id, "shipping", FALSE)
    \/ \E u \in Users, id \in AddressIds : AddressDelete(u, id)
    \/ \E u \in Users, id \in AddressIds :
          Checkout(u, Saved(id)) /\ Len(orders') <= MaxManagedOrders
    \/ \E u \in Users, n \in ManagedOrders : OrderDetail(u, n)
    \/ \E u \in Users, n \in ManagedOrders : CancelOrder(u, n)
    \/ \E v \in Vendors, n \in ManagedOrders : VendorOrderItems(v, n)
    \/ \E v \in Vendors, n \in ManagedOrders : VendorUpdateItemStatus(v, n, 1, "shipped")

SpecOwnership == Init /\ [][OwnershipNext]_vars

\* ---------------------------------------------------- catalog specification
\* Vendors switch products on and off, an administrator approves, rejects and
\* suspends vendors, a vendor deletes a product, and visitors read the catalog
\* on every public path.
CatalogNext ==
    \/ \E p \in Products, a \in BOOLEAN : VendorProductUpdate(p, StockEdit(p, stock[p], a))
    \/ \E v \in Vendors, action \in ApprovalActions : VendorApproval(v, action)
    \/ VendorProductDelete("p1")
    \/ ProductList
    \/ CategoryProductList(Category1)
    \/ FeaturedProducts
    \/ \E q \in Queries : ProductSearch(q)
    \/ \E p \in Products : ProductDetail(p) /\ view_count'[p] <= MaxViews
    \/ \E p \in Products : ProductById(p)
    \/ CategoryDetail(Category1)

SpecCatalog == Init /\ [][CatalogNext]_vars

\* ----------------------------------------------------- vendor specification
\* Accounts are registered, apply for a store, rename it, and an administrator
\* approves, rejects and suspends the stores.
VendorsNext ==
    \/ \E a \in People, r \in Roles : Register(a, r)
    \/ \E a \in People, n \in RequestedNames : VendorRegister(a, n)
    \/ \E v \in {"v1", "v3"}, n \in {"STORE1", "store3"} : VendorProfileUpdate(v, n)
    \/ \E v \in VendorIds \ Vendors, action \in ApprovalActions : VendorApproval(v, action)

SpecVendors == Init /\ [][VendorsNext]_vars

\* ---------------------------------------------------- cart save specification
\* The shopper's add-to-cart requests run statement by statement while the
\* vendors rewrite the stock of their products.
CartSaveNext ==
    \/ \E p \in Products, q \in Quantities : A_Validate(Shopper, p, q)
    \/ A_Save(Shopper)
    \/ \E p \in Products, s \in 0..MaxStock : VendorProductUpdate(p, StockEdit(p, s, TRUE))

SpecCartSave == Init /\ [][CartSaveNext]_vars

\* ------------------------------------------------------ image specification
\* Vendors delete and create products with images, upload further images
\* as primary or not, and delete images.
ImagesNext ==
    \/ \E p \in Products : VendorProductDelete(p)
    \/ \E p \in Products, count \in 0..MaxImages : VendorProductCreate(p, count)
    \/ \E v \in Vendors, p \in Products, primary \in BOOLEAN :
          VendorProductImageUpload(v, p, primary) /\ Len(images'[p]) <= MaxImages
    \/ \E v \in Vendors, p \in Products, i \in 1..MaxImages : VendorProductImageDelete(v, p, i)
    \/ \E v \in Vendors, action \in {"approve", "suspend"} : VendorApproval(v, action)

SpecImages == Init /\ [][ImagesNext]_vars

\* ------------------------------------------- concurrent cancel specification
\* The shopper orders, then two cancel requests of the shopper run side by
\* side, their statements interleaved.
Idle == \A r \in Requests : cancelling[r].stage = "idle"

CancelNext ==
    \/ \E p \in Products, q \in Quantities : Idle /\ AddToCart(Shopper, p, q)
    \/ Idle /\ Checkout(Shopper, Inline) /\ Len(orders') <= MaxManagedOrders
    \/ \E r \in Requests, n \in ManagedOrders : X_Check(r, Shopper, n)
    \/ \E r \in Requests : X_SaveStatus(r)
    \/ \E r \in Requests : X_UpdateItems(r)
    \/ \E r \in Requests : X_LoadProduct(r)
    \/ \E r \in Requests : X_SaveProduct(r)
    \/ \E r \in Requests : X_Finish(r)

SpecCancel == Init /\ [][CancelNext]_vars

\* ------------------------------------------------------------ cart claims
LineQty(c, p) == IF c[p] = Absent THEN 0 ELSE c[p]

Available(p) == is_active[p] /\ is_approved(VendorOf(p))

\* C9 as stated: an add whose combined quantity exceeds the stock is rejected
\* with a stock error, an update above the stock is rejected with a stock
\* error, both leave the cart as it was, and an accepted request stores
\* exactly the requested quantity, which is within the stock.
C9_AsStated ==
    [][/\ resp'.op = "add" =>
            LET u == resp'.user
                p == resp'.product
                q == resp'.quantity
                e == LineQty(cart[u], p)
            IN  /\ e + q > stock[p] =>
                      resp'.code = 400 /\ resp'.err = "stock" /\ cart' = cart
                /\ resp'.code = 200 => cart'[u][p] = e + q /\ e + q <= stock[p]
       /\ resp'.op = "update" =>
            LET u == resp'.user
                p == resp'.product
                q == resp'.quantity
            IN  /\ (resp'.owner = u /\ HasLine(u, p) /\ q > stock[p]) =>
                      resp'.code = 400 /\ resp'.err = "stock" /\ cart' = cart
                /\ resp'.code = 200 => cart'[u][p] = q /\ q <= stock[p]
      ]_vars

\* C9 amended: as C9, except that the add of a product that is inactive or
\* whose vendor is not approved is rejected with an availability error (the
\* serializer reports it before any stock check); the stock error is the
\* answer for an available product.
C9_RejectsOverStock ==
    [][/\ resp'.op = "add" =>
            LET u == resp'.user
                p == resp'.product
                q == resp'.quantity
                e == LineQty(cart[u], p)
            IN  /\ e + q > stock[p] =>
                      /\ resp'.code = 400
                      /\ cart' = cart
                      /\ resp'.err = (IF ~is_active[p] THEN "unavailable"
                                      ELSE IF ~is_approved(VendorOf(p)) THEN "vendor"
                                      ELSE "stock")
                /\ resp'.code = 200 => cart'[u][p] = e + q /\ e + q <= stock[p]
       /\ resp'.op = "update" =>
            LET u == resp'.user
                p == resp'.product
                q == resp'.quantity
            IN  /\ (resp'.owner = u /\ HasLine(u, p) /\ q > stock[p]) =>
                      resp'.code = 400 /\ resp'.err = "stock" /\ cart' = cart
                /\ resp'.code = 200 => cart'[u][p] = q /\ q <= stock[p]
      ]_vars

\* C9 witness (scenario A): the second add of an available product passes the
\* serializer (the request alone fits the stock) and is rejected for the
\* combined quantity; the line is still there with its previous quantity.
C9_Witness ==
    /\ resp.op = "add" /\ resp.code = 400 /\ resp.err = "stock"
    /\ Available(resp.product)
    /\ HasLine(resp.user, resp.product)
    /\ resp.quantity <= stock[resp.product]
    /\ cart[resp.user][resp.product] + resp.quantity > stock[resp.product]

\* The guest line can be merged: its product is active, the vendor approved
\* and at least one unit is in stock.
LineOK(line) == Available(line.product) /\ stock[line.product] >= 1

\* The cart the claim's formula gives, the guest lines taken in order: a line
\* that can be merged sets its product's quantity to
\* min(e + min(q, stock), stock), e being the quantity then in the cart.
RECURSIVE ClampedMerge(_, _)
ClampedMerge(c, items) ==
    IF items = <<>> THEN c
    ELSE LET l == Head(items)
             p == l.product
             next == IF LineOK(l)
                     THEN [c EXCEPT ![p] =
                             Min(LineQty(c, p) + Min(l.quantity, stock[p]), stock[p])]
                     ELSE c
         IN  ClampedMerge(next, Tail(items))

\* C10: a merge clamps instead of rejecting: every guest line whose product
\* is active, vendor-approved and in stock leaves the caller's line at
\* min(e + min(q, stock), stock), counts as merged and emits no warning.
C10_MergeClamps ==
    [][resp'.op = "merge" =>
         LET u == resp'.user
             items == resp'.items
             ok == {i \in DOMAIN items : LineOK(items[i])}
         IN  /\ \A i \in ok :
                   cart'[u][items[i].product] = ClampedMerge(cart[u], items)[items[i].product]
             /\ resp'.merged = Cardinality(ok)
             /\ \A i \in ok : \A j \in DOMAIN resp'.errors :
                   resp'.errors[j] # items[i].product
      ]_vars

\* C10 witness (scenario C): one guest line asking for more than the stock
\* was merged at the stock, with no warning.
C10_Witness ==
    /\ resp.op = "merge" /\ Len(resp.items) = 1
    /\ LineOK(resp.items[1])
    /\ resp.items[1].quantity > stock[resp.items[1].product]
    /\ cart[resp.user][resp.items[1].product] = stock[resp.items[1].product]
    /\ resp.merged = 1 /\ resp.errors = <<>>

\* ----------------------------------------------------------- order claims
\* Some line asks for more than the stock of its product.
LineExceeds(lines) == \E i \in DOMAIN lines : lines[i].quantity > stock[lines[i].product]

\* C1: checkout is all-or-nothing: an authenticated or a guest checkout with
\* a line that asks for more than its product's stock fails, and no order or
\* order item is created and no stock, sales_count or cart changes.
C1_AllOrNothing ==
    [][/\ (resp'.op = "checkout" /\ LineExceeds(CartLines(resp'.user))) =>
              /\ resp'.code = 400
              /\ UNCHANGED <<orders, stock, sales_count, cart>>
       /\ resp'.op = "guest_checkout" =>
              \A lines \in ItemLists :
                  (GuestCheckout(lines) /\ LineExceeds(lines)) =>
                      /\ resp'.code = 400
                      /\ UNCHANGED <<orders, stock, sales_count, cart>>
      ]_vars

\* C1 witness: a checkout was refused for lack of stock after an earlier
\* order had lowered the stock under the cart's quantity; the cart is intact.
C1_Witness ==
    /\ resp.op = "checkout" /\ resp.code = 400 /\ resp.err = "stock"
    /\ orders # <<>>
    /\ LineExceeds(CartLines(resp.user))

\* C2: no product's stock is ever negative, whatever the sequence of add,
\* update, merge, checkout, guest checkout, cancel and admin status update.
C2_StockNonNegative == \A p \in Products : stock[p] >= 0

\* C2 witness: a product sold out by a checkout (stock 0, units sold), and
\* an order cancelled so that the restore has run.
C2_Witness ==
    /\ \E p \in Products : stock[p] = 0 /\ sales_count[p] > 0
    /\ \E n \in DOMAIN orders : orders[n].status = "cancelled"

\* What a finished request asked for: the order's lines if it succeeded, the
\* lines still in the cart if it was refused.
Requested(u) ==
    IF pc[u] = "ok"
    THEN [i \in DOMAIN orders[local[u].order].items |->
             [product |-> orders[local[u].order].items[i].product,
              quantity |-> orders[local[u].order].items[i].quantity]]
    ELSE CartLines(u)

\* C3 as stated (scenario E): when the two checkouts, each of one unit of the
\* product with one unit in stock, have both finished, exactly one created an
\* order, the other was refused with the stock error and created nothing,
\* and the stock is 0.
C3_ExactlyOneSucceeds ==
    (/\ \A u \in Users : pc[u] \in {"ok", "stock_error", "empty_error"}
     /\ \A u \in Users : Requested(u) = <<[product |-> "p1", quantity |-> 1]>>)
    => /\ Cardinality({u \in Users : pc[u] = "ok"}) = 1
       /\ Cardinality({u \in Users : pc[u] = "stock_error"}) = 1
       /\ Len(orders) = 1
       /\ stock["p1"] = 0

\* Units of product p among the items.
QtyIn(items, p) ==
    SumSeq([i \in DOMAIN items |-> IF items[i].product = p THEN items[i].quantity ELSE 0])

\* Units of product p in the orders whose status is in S.
Ordered(p, S) ==
    SumSeq([n \in DOMAIN orders |->
              IF orders[n].status \in S THEN QtyIn(orders[n].items, p) ELSE 0])

\* C4: round trip: the stock of every product is its initial value less the
\* units of the orders still pending, so a checkout followed by the
\* cancellation of its order leaves the stock where it was; sales_count
\* counts the units of every order, cancelled ones included.
C4_RoundTrip ==
    \A p \in Products :
        /\ stock[p] = InitStock[p] - Ordered(p, {"pending"})
        /\ sales_count[p] = Ordered(p, OrderStatuses)

\* C4 witness: every order placed has been cancelled; the stock is back at
\* its value before the checkouts and units remain counted as sold.
C4_Witness ==
    /\ orders # <<>>
    /\ \A n \in DOMAIN orders : orders[n].status = "cancelled"
    /\ stock = InitStock
    /\ \E p \in Products : sales_count[p] > 0

\* The edges of the order status state machine.
StatusEdges ==
    {<<"pending", "processing">>, <<"processing", "shipped">>,
     <<"shipped", "delivered">>, <<"pending", "cancelled">>}

\* C5 as stated: every order is created pending, every change of an order's
\* status by any operation is an edge of the state machine, and so a
\* cancelled order keeps its status.
C5_StateMachine ==
    [][/\ \A n \in DOMAIN orders :
              orders'[n].status # orders[n].status =>
                  <<orders[n].status, orders'[n].status>> \in StatusEdges
       /\ \A n \in DOMAIN orders' :
              n \notin DOMAIN orders => orders'[n].status = "pending"
      ]_vars

\* C6: a cancel request for an order that is not pending is rejected with an
\* error and leaves the order, its items and the stock as they were; a cancel
\* request for a pending order of the caller sets the order and all of its
\* items to cancelled.
C6_CancelOnlyPending ==
    [][resp'.op = "cancel" =>
         LET u == resp'.user
             n == resp'.order
         IN  n \in DOMAIN orders =>
               /\ orders[n].status # "pending" =>
                     /\ resp'.code >= 400
                     /\ orders' = orders
                     /\ stock' = stock
               /\ (orders[n].status = "pending" /\ orders[n].user = u) =>
                     /\ resp'.code = 200
                     /\ orders'[n].status = "cancelled"
                     /\ \A i \in DOMAIN orders'[n].items :
                           orders'[n].items[i].status = "cancelled"
      ]_vars

\* C6 witness: the caller's own order, already shipped, was refused
\* cancellation.
C6_Witness ==
    /\ resp.op = "cancel" /\ resp.code = 400
    /\ resp.order \in DOMAIN orders
    /\ orders[resp.order].user = resp.user
    /\ orders[resp.order].status = "shipped"

\* C7 as stated: whenever an operation of the administrator changes an
\* order's status to s, every item of the order has status s right after.
C7_AdminCascade ==
    [][(/\ resp'.op \in {"admin_status", "admin_update"}
        /\ resp'.code = 200
        /\ orders'[resp'.order].status # orders[resp'.order].status)
       => \A i \in DOMAIN orders'[resp'.order].items :
             orders'[resp'.order].items[i].status = resp'.status
      ]_vars

\* C8 as stated, on the order a successful checkout answers with: the
\* subtotal is the sum of price x quantity over the items, the tax is 10% of
\* the subtotal (to the nearest cent), shipping is 5.00 under a subtotal of
\* 50.00 and free from 50.00 on, and the total is subtotal + tax + shipping.
C8_TotalsFormula ==
    (resp.op \in {"checkout", "guest_checkout"} /\ resp.code = 201) =>
        LET o == resp.order
            items == orders[Len(orders)].items
            sum == SumSeq([i \in DOMAIN items |->
                             items[i].product_price * items[i].quantity])
        IN  /\ o.subtotal = sum
            /\ 10 * o.tax - sum \in (0 - 5)..5
            /\ o.shipping_cost = (IF sum < 5000 THEN 500 ELSE 0)
            /\ o.total = o.subtotal + o.tax + o.shipping_cost

\* -------------------------------------------------- merge and frame claims
\* The guest line is skipped: its product is unknown, inactive, of a vendor
\* that is not approved, or out of stock.
LineSkipped(line) == line.product \notin Products \/ ~LineOK(line)

\* C11: a merge of well-formed guest lines (quantities of at least 1) always
\* answers 200; every line whose product is unknown, inactive, of a
\* non-approved vendor or out of stock is skipped, leaves the cart's line of
\* that product as it was and adds exactly one warning, so that the merged
\* count plus the number of warnings is the number of lines submitted.
C11_MergePartialSuccess ==
    [][resp'.op = "merge" =>
         LET u == resp'.user
             items == resp'.items
             skipped == {i \in DOMAIN items : LineSkipped(items[i])}
         IN  /\ resp'.code = 200
             /\ \A i \in skipped :
                   /\ items[i].product \in Products =>
                         cart'[u][items[i].product] = cart[u][items[i].product]
                   /\ Cardinality({j \in DOMAIN resp'.errors :
                                     resp'.errors[j] = items[i].product})
                        = Cardinality({k \in skipped :
                                         items[k].product = items[i].product})
             /\ Len(resp'.errors) = Cardinality(skipped)
             /\ resp'.merged + Len(resp'.errors) = Len(items)
      ]_vars

\* C11 witness: of two guest lines one was merged and the other, naming an
\* unknown product, skipped with one warning.
C11_Witness ==
    /\ resp.op = "merge" /\ resp.code = 200
    /\ Len(resp.items) = 2
    /\ resp.items[1].product = UnknownProduct
    /\ LineOK(resp.items[2])
    /\ resp.merged = 1 /\ Len(resp.errors) = 1
    /\ cart[resp.user][resp.items[2].product] >= 1

\* --------------------------------------------------------- address claims
\* The default addresses of user u of type t.
DefaultsOf(u, t) ==
    {id \in AddressIds : /\ addresses[id].user = u
                         /\ addresses[id].address_type = t
                         /\ addresses[id].is_default}

\* C12: for every user and address type at most one address is the default,
\* after any sequence of address creates, updates (of type or default flag),
\* deletes and checkouts that save an address, each run on its own.
C12_OneDefaultPerType ==
    \A u \in Users, t \in AddressTypes : Cardinality(DefaultsOf(u, t)) <= 1

\* C12 witness: a user with a default address and another address of the
\* same type that is not the default, after an update (the default was moved).
C12_Witness ==
    /\ resp.op = "address_update" /\ resp.code = 200
    /\ addresses[resp.address].is_default
    /\ \E other \in AddressIds :
          /\ other # resp.address
          /\ addresses[other].user = resp.user
          /\ addresses[other].address_type = addresses[resp.address].address_type
          /\ ~addresses[other].is_default

\* C13 as stated: while saves of default addresses run side by side, the
\* clearing of the previous default and the insert act as one: no user has
\* two default addresses of one type.
C13_AtomicDefault ==
    \A u \in Users, t \in AddressTypes :
        ~(\E a, b \in DefaultsOf(u, t) : a # b)

\* ----------------------------------------------------------- frame claims
EmptyCart == [p \in Products |-> Absent]

\* C14: a successful authenticated checkout leaves the caller's cart with no
\* items and every other user's cart as it was; a guest checkout changes no
\* cart; a checkout of a cart that is empty or does not exist fails and
\* creates no order.
C14_CartCleared ==
    [][/\ (resp'.op = "checkout" /\ resp'.code = 201) =>
              /\ cart'[resp'.user] = EmptyCart
              /\ \A v \in Users : v # resp'.user => cart'[v] = cart[v]
       /\ resp'.op = "guest_checkout" => cart' = cart
       /\ (resp'.op = "checkout" /\ cart[resp'.user] = EmptyCart) =>
              /\ resp'.code = 400
              /\ orders' = orders
      ]_vars

\* C14 witness: a checkout succeeded, the caller's cart is empty and the
\* other user's cart still holds a line.
C14_Witness ==
    /\ resp.op = "checkout" /\ resp.code = 201
    /\ cart[resp.user] = EmptyCart
    /\ \E v \in Users : v # resp.user /\ cart[v] # EmptyCart

\* ------------------------------------------------------- snapshot claims
\* What an order item records of the product at the time of the order.
Snapshot(it) ==
    [product_name |-> it.product_name, product_price |-> it.product_price,
     product_sku |-> it.product_sku, vendor_name |-> it.vendor_name,
     quantity |-> it.quantity, subtotal |-> it.subtotal]

OrderTotals(o) ==
    [subtotal |-> o.subtotal, tax |-> o.tax,
     shipping_cost |-> o.shipping_cost, total |-> o.total]

\* C15: no step taken after an order is placed (a change of the product's
\* name, price, sku, stock or active flag, a change of the vendor's store
\* name, the deletion of the product) changes the order's item rows'
\* product_name, product_price, product_sku, vendor_name, quantity and
\* subtotal, or the order's totals.
C15_SnapshotsStable ==
    [][\A n \in DOMAIN orders :
          /\ n \in DOMAIN orders'
          /\ OrderTotals(orders'[n]) = OrderTotals(orders[n])
          /\ Len(orders'[n].items) = Len(orders[n].items)
          /\ \A i \in DOMAIN orders[n].items :
                Snapshot(orders'[n].items[i]) = Snapshot(orders[n].items[i])]_vars

\* An order holds an item whose product was deleted after its name, sku and
\* price and the store name were changed, and the item still has the old ones.
C15_Witness ==
    /\ "p1" \in deleted
    /\ store_name["v1"] = "store3"
    /\ \E n \in DOMAIN orders : \E i \in DOMAIN orders[n].items :
          LET it == orders[n].items[i]
          IN  /\ it.product = NoProduct
              /\ it.product_name # name["p1"]
              /\ it.product_sku # sku["p1"]
              /\ it.product_price # price["p1"]
              /\ it.vendor_name = "store1"

\* --------------------------------------------------- order header claims
Header(o) ==
    [order_number |-> o.order_number, user |-> o.user, guest_email |-> o.guest_email,
     shipping_full_name |-> o.shipping_full_name]

\* C16: no step changes an existing order's order_number, user, guest_email
\* or shipping-address fields.
C16_HeaderImmutable ==
    [][\A n \in DOMAIN orders :
          n \in DOMAIN orders' /\ Header(orders'[n]) = Header(orders[n])]_vars

\* --------------------------------------------------- order number claims
\* C17: no two orders share an order_number, and a checkout whose generated
\* number is already taken persists nothing: no order, no items, no stock
\* change, no saved address, and the cart is not cleared.
C17_UniqueNumbers ==
    /\ [](\A m, n \in DOMAIN orders :
            orders[m].order_number = orders[n].order_number => m = n)
    /\ [][(resp'.op \in {"checkout", "guest_checkout"} /\ resp'.code = 500)
            => UNCHANGED <<orders, stock, sales_count, addresses, cart>>]_vars

\* A checkout of a filled cart drew the number of an existing order.
C17_Witness ==
    /\ resp.op = "checkout" /\ resp.code = 500 /\ resp.err = "integrity"
    /\ Len(orders) >= 1
    /\ cart[Shopper] # EmptyCart

\* --------------------------------------------------- guest lookup claims
\* The orders whose order_number and guest_email are the ones asked for.
Matching(num, email) ==
    {n \in DOMAIN orders :
        orders[n].order_number = num /\ orders[n].guest_email = email}

\* C18: a guest lookup returns an order only if the order number and the
\* email given are the order's order_number and guest_email, and then returns
\* that order; for every other pair (wrong or missing email, an order of a
\* signed-in user) the response carries no order and is the response the same
\* request gets for an order number that does not exist.
C18_GuestLookup ==
    [][resp'.op = "guest_order" =>
          LET num == resp'.order_number
              email == resp'.email
              answer == [code |-> resp'.code, err |-> resp'.err, data |-> resp'.data]
          IN  IF email # MissingEmail /\ Matching(num, email) # {}
              THEN /\ resp'.code = 200
                   /\ \E n \in Matching(num, email) : resp'.data = <<orders[n]>>
              ELSE /\ resp'.data = <<>>
                   /\ answer = GuestOrderLookup(orders, NoSuchNumber, email)]_vars

\* A lookup of a guest's order with another email, and of a signed-in user's
\* order, was answered as not found.
C18_Witness ==
    /\ resp.op = "guest_order" /\ resp.code = 404
    /\ resp.email = "g2"
    /\ \E n \in DOMAIN orders :
          /\ orders[n].order_number = resp.order_number
          /\ orders[n].guest_email = "g1"
    /\ \E n \in DOMAIN orders : orders[n].user = Shopper

\* ------------------------------------------------------- ownership claims
Outcome(r) == [code |-> r.code, err |-> r.err]
NotFound == [code |-> 404, err |-> "not_found"]
Stored == <<catalog, cart, orders, accounts>>

\* The record the answered request names exists and is not the caller's.
NotOwned(r) ==
    CASE r.op \in {"order_detail", "cancel"} ->
            r.order <= Len(orders) /\ orders[r.order].user # r.user
      [] r.op = "vendor_order_items" ->
            r.order <= Len(orders) /\ ItemsOfVendor(orders[r.order].items, r.vendor) = <<>>
      [] r.op = "vendor_item_status" ->
            /\ r.order <= Len(orders)
            /\ r.item <= Len(orders[r.order].items)
            /\ ItemsOfVendor(<<orders[r.order].items[r.item]>>, r.vendor) = <<>>
      [] r.op \in {"update", "remove"} -> r.owner # r.user /\ HasLine(r.owner, r.product)
      [] r.op \in {"address_update", "address_delete"} ->
            addresses[r.address].user \notin {r.user, NoAddress.user}
      [] OTHER -> FALSE

\* C19: when the order, order item, cart item or address a request names
\* exists but is not the caller's, the response is the one given when no such
\* record exists (404 not found; for a checkout with address_id, the 400 an
\* unknown address_id gets: empty cart, insufficient stock or address not
\* found) and nothing stored changes.
C19_OwnershipAsNotFound ==
    [][/\ NotOwned(resp') => Outcome(resp') = NotFound /\ UNCHANGED Stored
       /\ resp'.op = "checkout" =>
             \A id \in AddressIds :
                (/\ addresses[id].user \notin {resp'.user, NoAddress.user}
                 /\ Checkout(resp'.user, Saved(id)))
                   => /\ resp'.code = 400
                      /\ resp'.err \in {"empty", "stock", "address"}
                      /\ UNCHANGED Stored]_vars

\* ---------------------------------------------------------- catalog claims
PublicReads ==
    {"product_list", "category_products", "featured", "search", "product_detail",
     "product_by_id", "category_detail"}

\* C20: every product a public read path returns or counts is active and
\* belongs to an approved vendor.
C20_UniformVisibility ==
    [][resp'.op \in PublicReads =>
          \A p \in resp'.products :
             is_active'[p] /\ vstatus'[VendorOf(p)] = "approved"]_vars

\* ----------------------------------------------------------- vendor claims
\* The Vendor rows as stored: owner, status and store name of each id.
VendorRows == <<vowner, vstatus, store_name>>

\* Another vendor's store name is the requested one, ignoring case.
NameHeld(n) ==
    \E w \in VendorIds : vowner[w] # NoVendor /\ Lower(store_name[w]) = Lower(n)

\* C21: a vendor registration by a caller who already owns a vendor profile,
\* or for a store name another vendor holds ignoring case, fails and creates
\* no Vendor row; every other one creates exactly one Vendor row, owned by
\* the caller, with status pending, and makes the caller's role vendor.
C21_VendorRegistration ==
    [][(resp'.op = "vendor_register" /\ resp'.code # 401) =>
          LET a == resp'.user
              n == resp'.store_name
          IN  IF (\E v \in VendorIds : vowner[v] = a) \/ NameHeld(n)
              THEN /\ resp'.code = 400
                   /\ UNCHANGED VendorRows
              ELSE /\ resp'.code = 201
                   /\ role'[a] = "vendor"
                   /\ \E v \in VendorIds :
                         /\ vowner[v] = NoVendor
                         /\ vowner'[v] = a
                         /\ vstatus'[v] = "pending"
                         /\ store_name'[v] = n
                         /\ \A w \in VendorIds \ {v} :
                               /\ vowner'[w] = vowner[w]
                               /\ vstatus'[w] = vstatus[w]
                               /\ store_name'[w] = store_name[w]]_vars

\* A registration was refused for a name that differs from a held one in case
\* only, after another one had succeeded.
C21_Witness ==
    /\ resp.op = "vendor_register" /\ resp.code = 400 /\ resp.err = "store_name"
    /\ \A w \in VendorIds : store_name[w] # resp.store_name
    /\ \E v \in VendorIds \ Vendors : vstatus[v] = "pending" /\ role[vowner[v]] = "vendor"

\* C22: each user owns at most one Vendor profile, and every owner of a
\* Vendor profile has role vendor.
C22_OneProfilePerVendor ==
    /\ \A v, w \in VendorIds : (vowner[v] # NoVendor /\ vowner[v] = vowner[w]) => v = w
    /\ \A v \in VendorIds : vowner[v] # NoVendor => role[vowner[v]] = "vendor"

\* Both free rows are taken, one by a former customer and one by the former
\* administrator, and an owner's second registration was refused.
C22_Witness ==
    /\ \A v \in VendorIds : vowner[v] # NoVendor
    /\ \E v \in VendorIds : vowner[v] = "admin1"
    /\ resp.op = "vendor_register" /\ resp.err = "already_vendor"

\* -------------------------------------------------------- cart save claims
\* C23: immediately after every CartItem save the saved quantity is at least
\* 1 and at most the product's stock as of that save, also when the stock is
\* 0 (a cart holds one line per product by construction of cart).
C23_SavedQuantityInRange ==
    [][(resp'.op = "add" /\ resp'.code = 200) =>
          LET quantity == cart'[resp'.user][resp'.product]
          IN  1 <= quantity /\ quantity <= stock'[resp'.product]]_vars

\* ------------------------------------------------------------ image claims
\* C24: every product has at most one image with is_primary = true.
C24_OnePrimaryImage ==
    \A p \in Products : Cardinality(Primaries(images[p])) <= 1

\* A product created with two images got a third one uploaded as primary:
\* the last image is the primary one, the first no longer is.
C24_Witness ==
    \E p \in Products :
       /\ Len(images[p]) = MaxImages
       /\ Primaries(images[p]) = {MaxImages}
       /\ resp.op = "image_upload" /\ resp.code = 201

\* ------------------------------------------------------ item status claims
\* C25: a vendor's item-status update succeeds only for an item whose product
\* belongs to the calling vendor, and then changes the status of that item
\* only: the order's status, the order's other items, the other orders and
\* every product's stock stay as they were; a refused update changes nothing.
C25_ItemStatusIndependent ==
    [][resp'.op = "vendor_item_status" =>
          LET n == resp'.order
              i == resp'.item
          IN  /\ stock' = stock
              /\ IF resp'.code = 200
                 THEN /\ n \in DOMAIN orders /\ i \in DOMAIN orders[n].items
                      /\ orders[n].items[i].product # NoProduct
                      /\ VendorOf(orders[n].items[i].product) = resp'.vendor
                      /\ orders'[n].items[i] =
                            [orders[n].items[i] EXCEPT !.status = resp'.status]
                      /\ orders'[n].status = orders[n].status
                      /\ \A j \in DOMAIN orders[n].items \ {i} :
                            orders'[n].items[j] = orders[n].items[j]
                      /\ \A m \in DOMAIN orders \ {n} : orders'[m] = orders[m]
                 ELSE orders' = orders]_vars

\* A vendor set its item of a pending two-vendor order to shipped; the other
\* vendor's item is still pending.
C25_Witness ==
    /\ resp.op = "vendor_item_status" /\ resp.code = 200 /\ resp.status = "shipped"
    /\ orders[resp.order].status = "pending"
    /\ Len(orders[resp.order].items) = 2
    /\ \E j \in DOMAIN orders[resp.order].items :
          /\ j # resp.item
          /\ orders[resp.order].items[j].status = "pending"
          /\ VendorOf(orders[resp.order].items[j].product) # resp.vendor

\* ------------------------------------------------- stock conservation claims
\* The units of product p held by the orders that are not cancelled.
RECURSIVE Held(_, _)
Held(stored, p) ==
    IF stored = <<>> THEN 0
    ELSE (IF Head(stored).status # "cancelled"
          THEN SumSeq([i \in DOMAIN Head(stored).items |->
                         IF Head(stored).items[i].product = p
                         THEN Head(stored).items[i].quantity ELSE 0])
          ELSE 0) + Held(Tail(stored), p)

\* C26: with checkouts, customer cancels and administrator status updates as
\* the only writers of stock, every product's stock plus the quantities of its
\* items in the orders that are not cancelled is its initial stock.
C26_StockConserved ==
    \A p \in Products : stock[p] + Held(orders, p) = InitStock[p]

\* The quantity an order's items ask of product p, over all its lines.
AskedOf(o, p) ==
    SumSeq([i \in DOMAIN o.items |->
              IF o.items[i].product = p THEN o.items[i].quantity ELSE 0])

\* C27: a successful guest checkout asks of every product, over all its lines
\* together, no more than the stock before it, and lowers the stock by
\* exactly that sum.
C27_GuestOrderWithinStock ==
    [][(resp'.op = "guest_checkout" /\ resp'.code = 201 /\ Len(orders') = Len(orders) + 1)
       => \A p \in Products :
             /\ AskedOf(orders'[Len(orders')], p) <= stock[p]
             /\ stock'[p] = stock[p] - AskedOf(orders'[Len(orders')], p)]_vars

\* C28: a successful checkout, of a customer or of a guest, creates order
\* items only for products that are active and whose vendor is approved at
\* the time of the checkout.
C28_OnlyAvailableProductsOrdered ==
    [][(/\ resp'.op \in {"checkout", "guest_checkout"}
        /\ resp'.code = 201
        /\ Len(orders') = Len(orders) + 1)
       => \A i \in DOMAIN orders'[Len(orders')].items :
             LET p == orders'[Len(orders')].items[i].product
             IN  is_active[p] /\ is_approved(VendorOf(p))]_vars

\* C29: two cancel requests for the same pending order, their statements
\* interleaved: once both have ended, every line's quantity has been added
\* back to the stock exactly once, so the stock is the initial stock again.
C29_Finished ==
    /\ \A r \in Requests : cancelling[r].stage = "done"
    /\ \E n \in DOMAIN orders : orders[n].status = "cancelled"

C29_RestoredOnce ==
    C29_Finished => \A p \in Products : stock[p] + Held(orders, p) = InitStock[p]

\* C30: two checkouts run side by side and both succeed: for a product whose
\* stock covered both quantities together, the stock has fallen by their sum
\* and sales_count has risen by their sum.
C30_BothSucceeded == \A u \in Users : pc[u] = "ok"

C30_NoLostStockUpdate ==
    C30_BothSucceeded =>
        \A p \in Products :
            Held(orders, p) <= InitStock[p] =>
                /\ stock[p] = InitStock[p] - Held(orders, p)
                /\ sales_count[p] = Held(orders, p)

====
